---- MODULE Spec2Model ----
(***************************************************************************)
(* A model of parmed/amber/parameters.py: the AmberParameterSet parameter  *)
(* database, its frcmod / parm.dat line parsers, the leaprc directive      *)
(* processor and the frcmod writer.                                        *)
(*                                                                         *)
(* Text lines are modelled by what the regular expressions and split()     *)
(* calls of the handlers extract from them: a line is a record with a      *)
(* "shape" (which pattern it matches) and the captured fields.  Numbers    *)
(* are integers on a fixed grid; atom-type names are strings ordered as    *)
(* Python orders them (see Rank).  Python objects that are shared between  *)
(* dictionary keys are modelled by a handle into an object table.          *)
(***************************************************************************)
EXTENDS Integers, Sequences, FiniteSets, TLC

VARIABLES
    atom_types,               \* name -> [mass, atomic_number, rmin, epsilon]
    bond_types,               \* (a1,a2) -> handle of a BondType
    bond_objs,                \* handle -> [k, req]
    angle_types,              \* (a1,a2,a3) -> handle of an AngleType
    angle_objs,               \* handle -> [k, theteq]
    dihedral_types,           \* (a1,a2,a3,a4) -> handle of a DihedralTypeList
    dihedral_objs,            \* handle -> sequence of DihedralType terms
    improper_periodic_types,  \* canonical (a1,a2,a3,a4) -> [phi_k, per, phase]
    nbfix_types,              \* sorted (a1,a2) -> <<epsilon, rmin>>
    titles,                   \* self.titles
    warnings,                 \* number of warnings raised so far
    layout,                   \* "none" | "frcmod" | "parm": the parse in progress
    section,                  \* section (frcmod) or phase (parm.dat) of the parse
    finished_diheds,          \* the parse's finished_diheds dictionary
    key,                      \* the parse's local `key` (last_key)
    equivalent_ljtypes,       \* parm.dat: equivalenced type -> canonical type
    equivalent_types,         \* parm.dat: canonical type -> list of equivalents
    exc,                      \* how the last operation ended: "none" or the error
    nlines,                   \* data lines consumed so far, over all files
    hist,                     \* history: the dihedral lines accepted by this parse
    last,                     \* history: per kind of record and per key (as the
                              \* unordered set of names a line gives), what the
                              \* last accepted line said
    is_parm_loaded,           \* self.__is_parm_loaded
    directives,               \* history: the loadamberparams directives that
                              \* from_leaprc processed, with the outcome and the
                              \* database each one left
    text,                     \* <<>> or <<the lines that write() wrote>>
    original,                 \* <<>> or <<the database that write() was called on>>
    outfile,                  \* <<>> or <<[style, lines]>>: the style write() was
                              \* called with and the lines it printed to dest
    is_fmt,                   \* <<>> or <<[file, result]>>: the last file id_format
                              \* was called on and how the call ended
    applied,                  \* history: the entries of the addAtomTypes block that
                              \* from_leaprc has gone through
    resolved,                 \* history: the calls of _find_amber_file, each
                              \* [present, search_oldff, path]
    leap,                     \* <<>> or <<[stmts, text, i, db, exc, done]>>: from_leaprc
                              \* on the text of a script
    reader,                   \* <<>> or <<[phase, src, nread, end]>>: the parm.dat
                              \* parser reading its line source
    c4out,                    \* <<>> or <<[input, exc, result]>>: the last call of
                              \* params1264 and how it ended
    handles,                  \* history: the file objects that the operations used,
                              \* each [op, own_handle, closed] as its operation left it
    base                      \* <<>> or <<nlines when the written text was loaded
                              \* into a new AmberParameterSet>>

dbVars == <<atom_types, bond_types, bond_objs, angle_types, angle_objs,
            dihedral_types, dihedral_objs, improper_periodic_types, nbfix_types>>
parseVars == <<layout, section, finished_diheds, key, equivalent_ljtypes,
               equivalent_types>>
leapVars == <<is_parm_loaded, directives>>
tripVars == <<text, original, base, handles, outfile, is_fmt, applied, resolved,
              c4out, reader, leap>>
vars == <<dbVars, parseVars, titles, warnings, exc, nlines, hist, last, leapVars,
          tripVars>>

(***************************************************************************)
(* Bounds of the model.                                                    *)
(***************************************************************************)
MaxLines == 4       \* lines read by one run
MaxFiles == 2
MaxNbfixLines == 5  \* lines read by one run of SpecNbfix
MaxEquiv == 2       \* words read into one file's equivalencing table
MaxDirectives == 4  \* loadamberparams directives of one leaprc file
MaxOps == 3         \* operations that use a file object
MaxTriples == 3     \* entries of an addAtomTypes block
MaxFinds == 2       \* files looked up in the Amber directories

(***************************************************************************)
(* Generic helpers.                                                        *)
(***************************************************************************)
None == <<>>
EmptyDict == <<>>

\* d[k] = v of a Python dict
Put(d, k, v) == [x \in DOMAIN d \cup {k} |-> IF x = k THEN v ELSE d[x]]

\* the values of a dict
Values(d) == {d[x] : x \in DOMAIN d}

\* the identity of a newly constructed object: one that no live object has
Fresh(objs) ==
    CHOOSE h \in 1..(Cardinality(DOMAIN objs) + 1) :
        h \notin DOMAIN objs /\ \A g \in 1..(h - 1) : g \in DOMAIN objs

\* a table of objects cut down to the handles something still refers to
Live(objs, refs) == [h \in DOMAIN objs \cap refs |-> objs[h]]

(***************************************************************************)
(* Ending a parse.  An exception leaves the parser (load_parameters only   *)
(* closes the handle, lines 422-424): the database keeps what earlier      *)
(* lines stored and the parse's local variables are gone.                  *)
(***************************************************************************)
DropLocals ==
    /\ layout' = "none"
    /\ section' = "NONE"
    /\ finished_diheds' = EmptyDict
    /\ key' = None
    /\ equivalent_ljtypes' = EmptyDict
    /\ equivalent_types' = EmptyDict

RaiseAndGoOn(e) ==
    /\ exc' = e
    /\ UNCHANGED <<layout, section, finished_diheds, key, equivalent_ljtypes,
                   equivalent_types>>

Raise(e) ==
    /\ exc' = e
    /\ DropLocals

Return ==
    /\ exc' = "none"
    /\ DropLocals

(***************************************************************************)
(* _process_dihedral_line (lines 638-697).                                 *)
(* A dihedral line is [shape, key, div, k, phi, per, scee, scnb]: shape    *)
(* "full" matches _dihedre, "cont" matches only _dihed2re, "bad" neither;  *)
(* scee and scnb are the lists that _sceere / _scnbre findall return.      *)
(***************************************************************************)
DefaultScee == 12      \* 1.2, in tenths
DefaultScnb == 20      \* 2.0, in tenths

Reversed(k) == <<k[4], k[3], k[2], k[1]>>

\* finished_diheds[k] of a defaultdict(lambda: True)
Finished(fd, k) == IF k \in DOMAIN fd THEN fd[k] ELSE TRUE

\* float(k)/float(div): the inputs keep the quotient on the grid
Quot(k, div) == k \div div

Abs(x) == IF x < 0 THEN -x ELSE x

DihedralType(phi_k, per, phase, scee, scnb) ==
    [phi_k |-> phi_k, per |-> per, phase |-> phase, scee |-> scee, scnb |-> scnb]

TermOfLineSigned(line) ==
    LET scee == IF line.scee = <<>> THEN <<DefaultScee>> ELSE line.scee
        scnb == IF line.scnb = <<>> THEN <<DefaultScnb>> ELSE line.scnb
    IN DihedralType(Quot(line.k, line.div), line.per, line.phi,
                    Head(scee), Head(scnb))

\* lines 683-686: the term a line declares
TermOfLine(line) ==
    LET scee == IF line.scee = <<>> THEN <<DefaultScee>> ELSE line.scee
        scnb == IF line.scnb = <<>> THEN <<DefaultScnb>> ELSE line.scnb
    IN DihedralType(Quot(line.k, line.div), Abs(line.per), line.phi,
                    Head(scee), Head(scnb))

\* mutant: a zero periodicity does not close the torsion
ClosesTorsionPositiveOnly(per) == per > 0

\* line 695: the sign of the declared periodicity closes the torsion
ClosesTorsion(per) == per >= 0

\* mutant: the reversed key is not stored
StoreKeyOnly(d, k, rk, h) == Put(d, k, h)

\* line 692: self.dihedral_types[key] = self.dihedral_types[rkey] = typs
StoreBothOrientations(d, k, rk, h) == Put(Put(d, k, h), rk, h)

\* mutant: the status of the reversed key is not updated
MarkFinishedKeyOnly(fd, k, rk, per) == Put(fd, k, ClosesTorsion(per))

MarkFinishedAlways(fd, k, rk, per) == Put(Put(fd, k, TRUE), rk, TRUE)

\* line 695: finished_diheds[key] = finished_diheds[rkey] = per >= 0
MarkFinished(fd, k, rk, per) ==
    Put(Put(fd, k, ClosesTorsion(per)), rk, ClosesTorsion(per))

\* the warning of lines 678-682
InterruptsPending(last_key, k, rk) ==
    last_key # None /\ last_key # k /\ last_key # rk

ProcessDihedralLine(line) ==
    LET full == line.shape = "full"
        cont == line.shape = "cont"
        k    == IF full THEN line.key ELSE key
        rk   == Reversed(k)
        typ  == TermOfLine(line)
        h    == Fresh(dihedral_objs)
    IN
    /\ nlines' = nlines + 1
    /\ IF ~full /\ key = None
         THEN /\ Raise("ParameterError")
              /\ UNCHANGED <<dbVars, warnings, hist>>
       ELSE IF ~full /\ ~cont
         THEN /\ Raise("ParameterError")
              /\ UNCHANGED <<dbVars, warnings, hist>>
       ELSE IF cont /\ (key \notin DOMAIN finished_diheds \/ finished_diheds[key])
         THEN /\ Raise("AssertionError")
              /\ UNCHANGED <<dbVars, warnings, hist>>
       ELSE /\ warnings' = IF full /\ InterruptsPending(key, k, rk)
                             THEN warnings + 1 ELSE warnings
            /\ IF Finished(finished_diheds, k)
                 THEN /\ dihedral_types' = StoreBothOrientations(dihedral_types, k, rk, h)
                      /\ dihedral_objs' =
                            Live(Put(dihedral_objs, h, <<typ>>), Values(dihedral_types'))
                 ELSE /\ dihedral_objs' =
                            Put(dihedral_objs, dihedral_types[k],
                                Append(dihedral_objs[dihedral_types[k]], typ))
                      /\ UNCHANGED dihedral_types
            /\ finished_diheds' = MarkFinished(finished_diheds, k, rk, line.per)
            /\ key' = IF line.per < 0 THEN k ELSE None
            /\ hist' = Append(hist, [shape |-> line.shape, key |-> k, per |-> line.per,
                                     typ |-> typ])
            /\ UNCHANGED <<atom_types, bond_types, bond_objs, angle_types, angle_objs,
                           improper_periodic_types, nbfix_types, layout, section,
                           equivalent_ljtypes, equivalent_types, exc>>
    /\ UNCHANGED <<titles, leapVars, tripVars, last>>

(***************************************************************************)
(* Atom-type names and Python's ordering of them (min, max, sorted compare *)
(* strings by code point: digits before upper case before lower case).     *)
(***************************************************************************)
NameOrder == <<"C", "CA", "CT", "H", "N", "N2", "NA", "O", "X", "c", "o">>

Rank(a) == CHOOSE i \in 1..Len(NameOrder) : NameOrder[i] = a

Min(a, b) == IF Rank(a) <= Rank(b) THEN a ELSE b
Max(a, b) == IF Rank(a) <= Rank(b) THEN b ELSE a

\* sorted([a, b, c])
Sorted3(a, b, c) ==
    LET lo  == Min(a, Min(b, c))
        hi  == Max(a, Max(b, c))
        mid == IF Rank(a) + Rank(b) + Rank(c) - Rank(lo) - Rank(hi) = Rank(a) THEN a
               ELSE IF Rank(a) + Rank(b) + Rank(c) - Rank(lo) - Rank(hi) = Rank(b) THEN b
               ELSE c
    IN <<lo, mid, hi>>

(***************************************************************************)
(* What the history `last` records of an accepted line, under the names the *)
(* line gives and not under the keys the handler computes.                 *)
(***************************************************************************)
\* the atoms around atom 3 of an improper line, with their multiplicities
Flanking(a) ==
    [n \in {a[1], a[2], a[4]} |-> Cardinality({i \in {1, 2, 4} : a[i] = n})]

Recorded(kind, k, v) == [last EXCEPT ![kind] = Put(@, k, v)]

\* every key of ks gets the value v
RecordedAll(kind, ks, v) ==
    [last EXCEPT ![kind] = [x \in DOMAIN @ \cup ks |-> IF x \in ks THEN v ELSE @[x]]]

(***************************************************************************)
(* _process_mass_line (lines 599-614).  A mass line is [shape, type, mass]:*)
(* shape "ok", "short" (one token: IndexError) or "badfloat" (ValueError). *)
(***************************************************************************)
\* AtomicNum[element_by_mass(mass)] of parmed.periodic_table: the element
\* whose standard mass is nearest, for the masses the model uses (in amu)
AtomicNumByMass(mass) ==
    IF mass <= 6 THEN 1 ELSE IF mass <= 13 THEN 6 ELSE IF mass <= 15 THEN 7 ELSE 8

AtomType(number, mass, atomic_number) ==
    [number |-> number, mass |-> mass, atomic_number |-> atomic_number,
     rmin |-> None, epsilon |-> None]

\* AtomType.set_lj_params(eps, rmin); each attribute is None (<<>>) or <<value>>
SetLJParams(atype, eps, rmin) == [atype EXCEPT !.epsilon = eps, !.rmin = rmin]

MassLineFirstWins(at, line) ==
    IF line.type \in DOMAIN at THEN at
    ELSE Put(at, line.type, AtomType(Cardinality(DOMAIN at) + 1, line.mass,
                                     AtomicNumByMass(line.mass)))

MassLineStored(at, line) ==
    IF line.type \in DOMAIN at
      THEN [at EXCEPT ![line.type].mass = line.mass]
    ELSE IF line.type \in {"EP", "LP"}
      THEN Put(at, line.type, AtomType(Cardinality(DOMAIN at) + 1, line.mass, 0))
    ELSE Put(at, line.type, AtomType(Cardinality(DOMAIN at) + 1, line.mass,
                                     AtomicNumByMass(line.mass)))

ProcessMassLine(line) ==
    /\ nlines' = nlines + 1
    /\ IF line.shape # "ok"
         THEN /\ Raise("ParameterError")
              /\ UNCHANGED <<dbVars, last>>
         ELSE /\ atom_types' = MassLineStored(atom_types, line)
              /\ last' = Recorded("mass", line.type, line.mass)
              /\ section' = IF section = "MASS1" THEN "MASS" ELSE section
              /\ UNCHANGED <<bond_types, bond_objs, angle_types, angle_objs,
                             dihedral_types, dihedral_objs, improper_periodic_types,
                             nbfix_types, layout, finished_diheds, key,
                             equivalent_ljtypes, equivalent_types, exc>>
    /\ UNCHANGED <<titles, leapVars, tripVars, warnings, hist>>

(***************************************************************************)
(* _process_bond_line (618-626) and _process_angle_line (628-636).  A line *)
(* is [shape, key, k, eq] with shape "ok" (the regex matches) or "bad".    *)
(***************************************************************************)
BondType(k, req) == [k |-> k, req |-> req]
AngleType(k, theteq) == [k |-> k, theteq |-> theteq]

StoreBondForwardOnly(d, a1, a2, h) == Put(d, <<a1, a2>>, h)

\* lines 625-626: self.bond_types[(a1, a2)] = typ; self.bond_types[(a2, a1)] = typ
StoreBond(d, a1, a2, h) == Put(Put(d, <<a1, a2>>, h), <<a2, a1>>, h)

\* lines 635-636
StoreAngle(d, a1, a2, a3, h) == Put(Put(d, <<a1, a2, a3>>, h), <<a3, a2, a1>>, h)

\* lines 624-626: a new BondType under both keys; a record nothing refers to
\* any more is gone
BondLineStored(types, objs, line) ==
    LET h  == Fresh(objs)
        ts == StoreBond(types, line.key[1], line.key[2], h)
    IN  [types |-> ts, objs |-> Live(Put(objs, h, BondType(line.k, line.eq)), Values(ts))]

ProcessBondLine(line) ==
    /\ nlines' = nlines + 1
    /\ IF line.shape # "ok"
         THEN /\ Raise("ParameterError")
              /\ UNCHANGED <<dbVars, last>>
         ELSE /\ last' = Recorded("bond", {line.key[1], line.key[2]},
                                  BondType(line.k, line.eq))
              /\ bond_types' = BondLineStored(bond_types, bond_objs, line).types
              /\ bond_objs' = BondLineStored(bond_types, bond_objs, line).objs
              /\ UNCHANGED <<atom_types, angle_types, angle_objs, dihedral_types,
                             dihedral_objs, improper_periodic_types, nbfix_types,
                             parseVars, exc>>
    /\ UNCHANGED <<titles, leapVars, tripVars, warnings, hist>>

ProcessAngleLine(line) ==
    /\ nlines' = nlines + 1
    /\ IF line.shape # "ok"
         THEN /\ Raise("ParameterError")
              /\ UNCHANGED <<dbVars, last>>
         ELSE /\ last' = Recorded("angle",
                                  {line.key, <<line.key[3], line.key[2], line.key[1]>>},
                                  AngleType(line.k, line.eq))
              /\ angle_types' = StoreAngle(angle_types, line.key[1], line.key[2],
                                           line.key[3], Fresh(angle_objs))
              /\ angle_objs' = Live(Put(angle_objs, Fresh(angle_objs), AngleType(line.k, line.eq)),
                                    Values(angle_types'))
              /\ UNCHANGED <<atom_types, bond_types, bond_objs, dihedral_types,
                             dihedral_objs, improper_periodic_types, nbfix_types,
                             parseVars, exc>>
    /\ UNCHANGED <<titles, leapVars, tripVars, warnings, hist>>

(***************************************************************************)
(* _process_improper_line (699-710).  A line is [shape, key, k, phi, per]. *)
(***************************************************************************)
ImproperType(phi_k, per, phase) == [phi_k |-> phi_k, per |-> per, phase |-> phase]

ImproperKeyAsGiven(a) == a

\* lines 708-709: a1, a2, a4 = sorted([a1, a2, a4]); key = (a1, a2, a3, a4)
ImproperKey(a) ==
    LET s == Sorted3(a[1], a[2], a[4]) IN <<s[1], s[2], a[3], s[3]>>

ProcessImproperLine(line) ==
    /\ nlines' = nlines + 1
    /\ IF line.shape # "ok"
         THEN /\ Raise("ParameterError")
              /\ UNCHANGED <<dbVars, last>>
         ELSE /\ last' = Recorded("improper", <<line.key[3], Flanking(line.key)>>,
                                  ImproperType(line.k, line.per, line.phi))
              /\ improper_periodic_types' =
                    Put(improper_periodic_types, ImproperKey(line.key),
                        ImproperType(line.k, line.per, line.phi))
              /\ UNCHANGED <<atom_types, bond_types, bond_objs, angle_types, angle_objs,
                             dihedral_types, dihedral_objs, nbfix_types, parseVars, exc>>
    /\ UNCHANGED <<titles, leapVars, tripVars, warnings, hist>>

(***************************************************************************)
(* _process_nonbond_line (712-724).  A line is [shape, type, rmin, eps]:   *)
(* shape "ok", "short" (fewer than 3 tokens) or "badfloat".                *)
(***************************************************************************)
NonbondLineStoredAll(at, line) ==
    [t \in DOMAIN at |-> SetLJParams(at[t], <<line.eps>>, <<line.rmin>>)]

\* line 718: self.atom_types[atyp].set_lj_params(float(eps), float(rmin))
NonbondLineStored(at, line) ==
    [at EXCEPT ![line.type] = SetLJParams(@, <<line.eps>>, <<line.rmin>>)]

ProcessNonbondLine(line) ==
    /\ nlines' = nlines + 1
    /\ IF line.shape = "short" \/ line.type \notin DOMAIN atom_types
          \/ line.shape = "badfloat"
         THEN /\ Raise("ParameterError")
              /\ UNCHANGED <<dbVars, last>>
         ELSE /\ atom_types' = NonbondLineStored(atom_types, line)
              /\ last' = [Recorded("lj_named", line.type, <<<<line.eps>>, <<line.rmin>>>>)
                            EXCEPT !.lj = Put(@, line.type, <<<<line.eps>>, <<line.rmin>>>>)]
              /\ UNCHANGED <<bond_types, bond_objs, angle_types, angle_objs,
                             dihedral_types, dihedral_objs, improper_periodic_types,
                             nbfix_types, parseVars, exc>>
    /\ UNCHANGED <<titles, leapVars, tripVars, warnings, hist>>

(***************************************************************************)
(* _process_nbfix_line (726-751).  A line is                               *)
(* [shape, a1, a2, rmin1, eps1, rmin2, eps2]; equivalents is None in the   *)
(* frcmod layout and the parse's equivalent_types in the parm.dat layout.  *)
(***************************************************************************)
\* math.sqrt on the grid (exact on the perfect squares the inputs produce)
Sqrt(n) == CHOOSE r \in 0..n : r * r <= n /\ (r + 1) * (r + 1) > n

Range(seq) == {seq[i] : i \in 1..Len(seq)}

\* equivalents[a] of a defaultdict(list)
Equivalents(eq, a) == IF a \in DOMAIN eq THEN eq[a] ELSE <<>>

SortedPairAsGiven(a1, a2) == <<a1, a2>>

\* line 738: (min(a1, a2), max(a1, a2))
SortedPair(a1, a2) == <<Min(a1, a2), Max(a1, a2)>>

NbfixKeysNoCross(a1, a2, useEquiv, eq) ==
    LET e1 == IF useEquiv THEN Range(Equivalents(eq, a1)) ELSE {}
        e2 == IF useEquiv THEN Range(Equivalents(eq, a2)) ELSE {}
    IN  {SortedPair(a1, a2)}
        \cup {SortedPair(oa1, a2) : oa1 \in e1}
        \cup {SortedPair(a1, oa2) : oa2 \in e2}

\* lines 738-751: the keys one LJEDIT line assigns
NbfixKeys(a1, a2, useEquiv, eq) ==
    LET e1 == IF useEquiv THEN Range(Equivalents(eq, a1)) ELSE {}
        e2 == IF useEquiv THEN Range(Equivalents(eq, a2)) ELSE {}
    IN  {SortedPair(a1, a2)}
        \cup {SortedPair(oa1, a2) : oa1 \in e1}
        \cup {SortedPair(a1, oa2) : oa2 \in e2}
        \cup {SortedPair(oa1, oa2) : oa1 \in e1, oa2 \in e2}

\* (math.sqrt(eps1*eps2), rmin1+rmin2)
NbfixValue(line) == <<Sqrt(line.eps1 * line.eps2), line.rmin1 + line.rmin2>>

\* history only: the unordered pairs one type of which is a1 or equivalenced to
\* a1 and the other a2 or equivalenced to a2
Reached(line, useEquiv, eq) ==
    { {x, y} : x \in {line.a1} \cup (IF useEquiv THEN Range(Equivalents(eq, line.a1)) ELSE {}),
               y \in {line.a2} \cup (IF useEquiv THEN Range(Equivalents(eq, line.a2)) ELSE {}) }

NbfixStored(nb, line, useEquiv, eq) ==
    LET ks == NbfixKeys(line.a1, line.a2, useEquiv, eq)
    IN [x \in DOMAIN nb \cup ks |-> IF x \in ks THEN NbfixValue(line) ELSE nb[x]]

ProcessNbfixLine(line, useEquiv) ==
    /\ nlines' = nlines + 1
    /\ IF line.shape # "ok"
         THEN /\ Raise("ParameterError")
              /\ UNCHANGED <<dbVars, last>>
       ELSE IF line.eps1 * line.eps2 < 0
         THEN /\ Raise("ValueError")        \* math.sqrt, outside the try blocks
              /\ UNCHANGED <<dbVars, last>>
       ELSE /\ nbfix_types' = NbfixStored(nbfix_types, line, useEquiv, equivalent_types)
            /\ last' = [RecordedAll("nbfix", Reached(line, useEquiv, equivalent_types),
                                    <<line.rmin1, line.eps1, line.rmin2, line.eps2>>)
                          EXCEPT !.nbfix_named =
                                    Put(@, {line.a1, line.a2},
                                        <<line.rmin1, line.eps1, line.rmin2, line.eps2>>),
                                 !.nbfix_line = <<line>>]
            /\ UNCHANGED <<atom_types, bond_types, bond_objs, angle_types, angle_objs,
                           dihedral_types, dihedral_objs, improper_periodic_types,
                           parseVars, exc>>
    /\ UNCHANGED <<titles, leapVars, tripVars, warnings, hist>>

(***************************************************************************)
(* The equivalencing table of a parm.dat file (lines 544-556) and the copy *)
(* of the canonical types' LJ values (lines 571-585).  equivalent_ljtypes  *)
(* is a dict, modelled in insertion order as a sequence of <<type, canon>>;*)
(* equivalent_types maps a canonical type to a list.                       *)
(***************************************************************************)
TINY == 1    \* parmed.constants.TINY (1e-8), in grid units

OrderedPut(od, k, v) ==
    IF \E i \in 1..Len(od) : od[i][1] = k
      THEN [i \in 1..Len(od) |-> IF od[i][1] = k THEN <<k, v>> ELSE od[i]]
      ELSE Append(od, <<k, v>>)

\* list.remove(x): drops the first occurrence
RemoveFirst(seq, x) ==
    LET i == CHOOSE j \in 1..Len(seq) : seq[j] = x /\ \A m \in 1..(j-1) : seq[m] # x
    IN  SubSeq(seq, 1, i - 1) \o SubSeq(seq, i + 1, Len(seq))

RECURSIVE ReadEquivWords(_, _, _, _)
\* lines 553-555, for the words of one line from position i on
ReadEquivWords(st, canon, words, i) ==
    IF i > Len(words) THEN st
    ELSE ReadEquivWords(
           [lj |-> OrderedPut(st.lj, words[i], canon),
            et |-> Put(st.et, canon, Append(Equivalents(st.et, canon), words[i]))],
           canon, words, i + 1)

\* lines 573-585: one turn of the loop over equivalent_ljtypes.items()
\* (st.copied and st.warned are history: the values line 585 gave to each
\* type, and the <<type, canonical type>> of each warning of line 579)
AssignEquivalenced(st, atyp, canon) ==
    IF st.err # "none" THEN st
    ELSE IF canon \notin DOMAIN st.at THEN [st EXCEPT !.err = "KeyError"]
    ELSE IF atyp \notin DOMAIN st.at THEN st
    ELSE LET o == st.at[canon]
             a == st.at[atyp]
         IN IF a.rmin # None /\ a.epsilon # None
              THEN IF o.epsilon = None \/ o.rmin = None
                     THEN [st EXCEPT !.err = "TypeError"]
                   ELSE IF Abs(o.epsilon[1] - a.epsilon[1]) > TINY
                           \/ Abs(o.rmin[1] - a.rmin[1]) > TINY
                     THEN [st EXCEPT !.warn = @ + 1,
                                     !.warned = Append(@, <<atyp, canon>>),
                                     !.et = Put(@, canon, RemoveFirst(@[canon], atyp))]
                   ELSE [st EXCEPT !.at[atyp] = SetLJParams(@, o.epsilon, o.rmin),
                                   !.copied = Put(@, atyp, <<o.epsilon, o.rmin>>)]
              ELSE [st EXCEPT !.at[atyp] = SetLJParams(@, o.epsilon, o.rmin),
                              !.copied = Put(@, atyp, <<o.epsilon, o.rmin>>)]

RECURSIVE AssignAllEquivalenced(_, _, _)
AssignAllEquivalenced(st, lj, i) ==
    IF i > Len(lj) THEN st
    ELSE AssignAllEquivalenced(AssignEquivalenced(st, lj[i][1], lj[i][2]), lj, i + 1)

(***************************************************************************)
(* load_parameters (397-424), _parse_frcmod (428-474) and _parse_parm_dat  *)
(* (478-594), one action per line read.  The phases of a parm.dat parse    *)
(* are its sections in their fixed order; "MASS1" is the mass section      *)
(* before the line that load_parameters read (never blank) is processed.   *)
(***************************************************************************)
InSectionAny(s, max) == layout # "none" /\ section # "NONE" /\ nlines < max

\* the parse is in section s and the run may read one more line
InSection(s, max) == layout # "none" /\ section = s /\ nlines < max

FrcmodSections == {"MASS", "BOND", "ANGLE", "DIHEDRAL", "IMPROPER", "NONBOND", "NBFIX"}

\* the phase a blank line leads to
NextPhase(s) ==
    CASE s = "MASS"      -> "BOND"       \* line 495 also skips the hydrophobic-type line
      [] s = "BOND"      -> "ANGLE"
      [] s = "ANGLE"     -> "DIHEDRAL"
      [] s = "DIHEDRAL"  -> "IMPROPER"
      [] s = "IMPROPER"  -> "TENTWELVE"
      [] s = "TENTWELVE" -> "EQUIV"
      [] s = "EQUIV"     -> "KIND"

\* lines 405-421: the title is stored, the next line decides the layout
\* (first = "eof": no further line; "frcmod": blank or a section header;
\* "parm": anything else, handed to the mass handler)
LoadParameters(first) ==
    /\ layout = "none"
    /\ Len(titles) < MaxFiles
    /\ titles' = Append(titles, Len(titles) + 1)
    /\ hist' = <<>>
    /\ exc' = "none"
    /\ finished_diheds' = EmptyDict       \* lines 434 / 487
    /\ key' = None                        \* lines 435 / 514
    /\ equivalent_ljtypes' = <<>>         \* line 546
    /\ equivalent_types' = EmptyDict      \* line 547
    /\ layout' = IF first = "eof" THEN "none" ELSE first
    /\ section' = IF first = "parm" THEN "MASS1" ELSE "NONE"
    /\ UNCHANGED <<dbVars, warnings, nlines, last, leapVars, tripVars>>

\* lines 439-459: a section header of an frcmod file
Header(s) ==
    /\ layout = "frcmod"
    /\ section' = s
    /\ UNCHANGED <<dbVars, layout, finished_diheds, key, equivalent_ljtypes,
                   equivalent_types, titles, leapVars, tripVars, warnings, exc, nlines, hist, last>>

\* lines 461-474 with section = None: a data line before any header is dropped
UnsectionedLine(max) ==
    /\ layout = "frcmod"
    /\ section = "NONE"
    /\ nlines < max
    /\ nlines' = nlines + 1
    /\ UNCHANGED <<dbVars, parseVars, titles, leapVars, tripVars, warnings, exc, hist, last>>

\* line 436: the input of an frcmod file ends
EndOfFrcmod ==
    /\ layout = "frcmod"
    /\ Return
    /\ UNCHANGED <<dbVars, titles, leapVars, tripVars, warnings, nlines, hist, last>>

\* a blank line ends a section of a parm.dat file (what the end of the input
\* does is the subject of ReadParmLine)
ParmBlank ==
    /\ layout = "parm"
    /\ section \in {"MASS", "BOND", "ANGLE", "DIHEDRAL", "IMPROPER", "TENTWELVE", "EQUIV"}
    /\ section' = NextPhase(section)
    /\ UNCHANGED <<dbVars, layout, finished_diheds, key, equivalent_ljtypes,
                   equivalent_types, titles, leapVars, tripVars, warnings, exc, nlines, hist, last>>

\* lines 530-543: a line of the 10-12 section (shape "zero": both coefficients
\* are 0; "nonzero"; "bad": fewer than four words or no float)
TenTwelveLine(shape, max) ==
    /\ InSection("TENTWELVE", max)
    /\ nlines' = nlines + 1
    /\ IF shape = "zero"
         THEN UNCHANGED <<parseVars, exc>>
         ELSE Raise("ParameterError")
    /\ UNCHANGED <<dbVars, titles, leapVars, tripVars, warnings, hist, last>>

RECURSIVE SumLen(_, _)
SumLen(et, ks) ==
    IF ks = {} THEN 0
    ELSE LET k == CHOOSE x \in ks : TRUE IN Len(et[k]) + SumLen(et, ks \ {k})

\* the words read so far into the lists of equivalent_types
EquivWords(et) == SumLen(et, DOMAIN et)

\* lines 548-556: a line of the equivalencing table, [canon, equivs]
EquivLine(lines) ==
    /\ layout = "parm"
    /\ section = "EQUIV"
    /\ \E line \in lines :
        /\ EquivWords(equivalent_types) + Len(line.equivs) <= MaxEquiv
        /\ LET st == ReadEquivWords([lj |-> equivalent_ljtypes, et |-> equivalent_types],
                                    line.canon, line.equivs, 1)
           IN /\ equivalent_ljtypes' = st.lj
              /\ equivalent_types' = st.et
    /\ UNCHANGED <<dbVars, layout, section, finished_diheds, key, titles, leapVars, tripVars, warnings,
                   exc, nlines, hist, last>>

\* str.upper on the second word of the kind line
Upper(w) ==
    CASE w = "re" -> "RE"
      [] w = "Re" -> "RE"
      [] w = "ac" -> "AC"
      [] OTHER    -> w

KindAcceptedAny(kind) == kind # "short"

\* lines 558-563: at least two words, and words[1].upper() is 'RE'
KindAccepted(kind) == kind # "short" /\ Upper(kind) = "RE"

\* lines 557-563: the line naming the kind of nonbonded parameters
\* (kind: the second word of the line, or "short": fewer than two words)
KindLine(kind) ==
    /\ layout = "parm"
    /\ section = "KIND"
    /\ IF KindAccepted(kind)
         THEN /\ section' = "NONBOND"
              /\ UNCHANGED <<layout, finished_diheds, key, equivalent_ljtypes,
                             equivalent_types, exc>>
         ELSE Raise("ParameterError")
    /\ UNCHANGED <<dbVars, titles, leapVars, tripVars, warnings, nlines, hist, last>>

\* lines 571-587: the nonbonded section ends, the equivalenced types get their
\* LJ values, and the next line opens the LJEDIT section or ends the parse
\* (record: the history last.equiv is kept)
EndNonbondStep(ljedit, record) ==
    /\ layout = "parm"
    /\ section = "NONBOND"
    /\ LET st == AssignAllEquivalenced(
                    [at |-> atom_types, et |-> equivalent_types, warn |-> 0,
                     err |-> "none", copied |-> EmptyDict, warned |-> <<>>],
                    equivalent_ljtypes, 1)
       IN /\ atom_types' = st.at
          /\ last' = [last EXCEPT !.lj =
                         [x \in DOMAIN @ \cup DOMAIN st.copied |->
                             IF x \in DOMAIN st.copied THEN st.copied[x] ELSE @[x]],
                                  !.equiv = IF record
                                              THEN <<[before |-> atom_types, after |-> st.at,
                                                      table |-> equivalent_types,
                                                      kept |-> st.et,
                                                      warned |-> st.warned, err |-> st.err]>>
                                              ELSE @]
          /\ warnings' = warnings + st.warn
          /\ IF st.err # "none" THEN Raise(st.err)
             ELSE IF ljedit
               THEN /\ section' = "NBFIX"
                    /\ equivalent_types' = st.et
                    /\ UNCHANGED <<layout, finished_diheds, key, equivalent_ljtypes, exc>>
             ELSE Return
    /\ UNCHANGED <<bond_types, bond_objs, angle_types, angle_objs, dihedral_types,
                   dihedral_objs, improper_periodic_types, nbfix_types, titles, leapVars, tripVars,
                   nlines, hist>>

EndNonbond(ljedit) == EndNonbondStep(ljedit, FALSE)

EndNonbondRecorded(ljedit) == EndNonbondStep(ljedit, TRUE)

\* lines 589-594: a blank line ends the LJEDIT section
EndOfParm ==
    /\ layout = "parm"
    /\ section = "NBFIX"
    /\ Return
    /\ UNCHANGED <<dbVars, titles, leapVars, tripVars, warnings, nlines, hist, last>>

MassLine(lines, max) ==
    /\ layout # "none" /\ section \in {"MASS", "MASS1"} /\ nlines < max
    /\ \E line \in lines : ProcessMassLine(line)

BondLine(lines, max) == InSection("BOND", max) /\ \E line \in lines : ProcessBondLine(line)

AngleLine(lines, max) == InSection("ANGLE", max) /\ \E line \in lines : ProcessAngleLine(line)

DihedralLine(lines, max) == InSection("DIHEDRAL", max) /\ \E line \in lines : ProcessDihedralLine(line)

ImproperLine(lines, max) == InSection("IMPROPER", max) /\ \E line \in lines : ProcessImproperLine(line)

NonbondLine(lines, max) == InSection("NONBOND", max) /\ \E line \in lines : ProcessNonbondLine(line)

NbfixLine(lines, max) ==
    InSection("NBFIX", max) /\ \E line \in lines : ProcessNbfixLine(line, layout = "parm")

(***************************************************************************)
(* from_leaprc (lines 247-374): the loadamberparams directives.  A file    *)
(* name is the sequence of its characters.  load_parameters runs to its    *)
(* end inside the step of the directive; the files of this part are frcmod *)
(* files with one BOND section, Files maps the names that exist to their   *)
(* bond lines, and the title line of a file is modelled by its name.       *)
(***************************************************************************)
Parm10 == <<"p", "a", "r", "m", "1", "0", ".", "d", "a", "t">>
Parm99 == <<"p", "a", "r", "m", "9", "9", ".", "d", "a", "t">>
Parm15 == <<"p", "a", "r", "m", "1", "5">>
Parm15Dat == Parm15 \o <<".", "d", "a", "t">>
Parm15Ipq == Parm15 \o <<"i", "p", "q", ".", "d", "a", "t">>
Frcmod14SB == <<"f", "r", "c", "m", "o", "d", ".", "f", "f", "1", "4", "S", "B">>
Parm1 == <<"p", "a", "r", "m", "1">>

\* str.startswith
StartsWith(str, prefix) ==
    Len(str) >= Len(prefix) /\ SubSeq(str, 1, Len(prefix)) = prefix

\* lines 314-316
ParmLoadedKeyExact(fname) == fname

ParmLoadedKey(fname) == IF StartsWith(fname, Parm15) THEN Parm15 ELSE fname

\* lines 320-321
AlreadyLoaded(flags, k) == k \in DOMAIN flags /\ flags[k]

\* line 324, under the test of line 320
MarkLoadedNever(flags, k) == flags

MarkLoaded(flags, k) == IF k \in DOMAIN flags THEN [flags EXCEPT ![k] = TRUE] ELSE flags

BondLineOf(a1, a2, k, eq) == [shape |-> "ok", key |-> <<a1, a2>>, k |-> k, eq |-> eq]

\* the files _find_amber_file finds (lines 43-62), with their bond lines
Files ==
    (Parm10 :> <<BondLineOf("CT", "N", 300, 15), BondLineOf("CT", "C", 317, 15)>>)
    @@ (Parm99 :> <<BondLineOf("CT", "N", 337, 14)>>)
    @@ (Parm15Dat :> <<BondLineOf("N", "CT", 330, 14)>>)
    @@ (Parm15Ipq :> <<BondLineOf("CT", "N", 335, 14)>>)
    @@ (Frcmod14SB :> <<BondLineOf("N", "CT", 310, 14)>>)

RECURSIVE ParsedBondLines(_, _, _)
\* _parse_frcmod over the lines of a BOND section, from line i on
ParsedBondLines(st, lines, i) ==
    IF i > Len(lines) THEN st
    ELSE ParsedBondLines(BondLineStored(st.types, st.objs, lines[i]), lines, i + 1)

\* lines 308-325: one loadamberparams directive
LoadAmberParams(fname) ==
    /\ exc = "none"
    /\ layout = "none"
    /\ Len(directives) < MaxDirectives
    /\ LET parm_loaded_key == ParmLoadedKey(fname) IN
       IF AlreadyLoaded(is_parm_loaded, parm_loaded_key)
         THEN /\ warnings' = warnings + 1
              /\ directives' = Append(directives,
                                      [fname |-> fname, outcome |-> "skipped",
                                       db |-> <<dbVars, titles>>])
              /\ UNCHANGED <<dbVars, titles, is_parm_loaded, exc, nlines>>
       ELSE /\ is_parm_loaded' = MarkLoaded(is_parm_loaded, parm_loaded_key)
            /\ IF fname \notin DOMAIN Files
                 THEN /\ exc' = "FileNotFoundError"
                      /\ directives' = Append(directives,
                                              [fname |-> fname, outcome |-> "notfound",
                                               db |-> <<dbVars, titles>>])
                      /\ UNCHANGED <<dbVars, titles, warnings, nlines>>
                 ELSE LET st == ParsedBondLines([types |-> bond_types, objs |-> bond_objs],
                                                Files[fname], 1)
                      IN /\ bond_types' = st.types
                         /\ bond_objs' = st.objs
                         /\ titles' = Append(titles, fname)
                         /\ nlines' = nlines + Len(Files[fname])
                         /\ UNCHANGED <<atom_types, angle_types, angle_objs, dihedral_types,
                                        dihedral_objs, improper_periodic_types, nbfix_types,
                                        warnings, exc>>
                         /\ directives' = Append(directives,
                                                 [fname |-> fname, outcome |-> "loaded",
                                                  db |-> <<dbVars, titles>>'])
    /\ UNCHANGED <<parseVars, hist, last, tripVars>>

(***************************************************************************)
(* write (lines 755-857).  The written file is the sequence of its data    *)
(* lines, each with the section whose header precedes it, as the handlers  *)
(* will read it: the fields of a line are what the format string prints,   *)
(* in the order it prints them.  The numbers of the model are on the grid  *)
(* of the printed precision.  A dictionary is written in an order the      *)
(* model does not keep; of the two keys of a shared record the first or    *)
(* the last is printed (forward).                                          *)
(***************************************************************************)
RECURSIVE KeyCode(_)
\* a number that orders keys as Python orders tuples of names
KeyCode(k) ==
    IF k = <<>> THEN 0
    ELSE Rank(k[Len(k)]) + (Len(NameOrder) + 1) * KeyCode(SubSeq(k, 1, Len(k) - 1))

RECURSIVE KeysInOrder(_)
KeysInOrder(ks) ==
    IF ks = {} THEN <<>>
    ELSE LET k == CHOOSE x \in ks : \A y \in ks : KeyCode(x) <= KeyCode(y)
         IN <<k>> \o KeysInOrder(ks \ {k})

\* lines 788-790 (id(typ) in done): the key a shared record is printed under
PrintedKey(types, h, forward) ==
    LET ks == {k \in DOMAIN types : types[k] = h}
    IN CHOOSE k \in ks : \A y \in ks :
          IF forward THEN KeyCode(k) <= KeyCode(y) ELSE KeyCode(k) >= KeyCode(y)

RECURSIVE Flatten(_)
Flatten(seqs) == IF seqs = <<>> THEN <<>> ELSE Head(seqs) \o Flatten(Tail(seqs))

Item(sec, line) == [section |-> sec, line |-> line]

\* the atom types in the order of the dictionary (the order they were made in)
TypeNumbered(at, n) == CHOOSE t \in DOMAIN at : at[t].number = n

\* lines 781-784: f'{atom:<6}{typ.mass:6.3f}'
WrittenMass(at) ==
    [n \in 1..Cardinality(DOMAIN at) |->
        LET t == TypeNumbered(at, n)
        IN Item("MASS", [shape |-> "ok", type |-> t, mass |-> at[t].mass])]

\* the keys of a dictionary, every key that reaches a record already printed
\* included
PrintedKeysAll(types, objs, forward) == DOMAIN types

\* lines 787-790, 795-798, 809-811: the keys whose record is not in `done`
\* when the loop comes to them, one per record
PrintedKeys(types, objs, forward) ==
    {PrintedKey(types, types[k], forward) : k \in DOMAIN types}

\* lines 786-792: f'{a1:<2}-{a2:<2}   {typ.k:8.3f}  {typ.req:6.3f}'
WrittenBonds(types, objs, forward) ==
    LET hs == KeysInOrder(PrintedKeys(types, objs, forward))
    IN [i \in 1..Len(hs) |->
          LET obj == objs[types[hs[i]]]
          IN Item("BOND", [shape |-> "ok", key |-> hs[i], k |-> obj.k, eq |-> obj.req])]

\* lines 794-800
WrittenAngles(types, objs, forward) ==
    LET hs == KeysInOrder(PrintedKeys(types, objs, forward))
    IN [i \in 1..Len(hs) |->
          LET obj == objs[types[hs[i]]]
          IN Item("ANGLE", [shape |-> "ok", key |-> hs[i], k |-> obj.k, eq |-> obj.theteq])]

\* lines 804-808, write_dtype: the divisor printed is 1, the periodicity is
\* cont * typ.per, SCEE and SCNB are printed
WrittenTerm(k, cont, typ) ==
    Item("DIHEDRAL", [shape |-> "full", key |-> k, div |-> 1, k |-> typ.phi_k,
                      phi |-> typ.phase, per |-> cont * typ.per,
                      scee |-> <<typ.scee>>, scnb |-> <<typ.scnb>>])

\* lines 809-819: every term but the last with cont = -1
WrittenTorsion(k, terms) ==
    [i \in 1..Len(terms) |-> WrittenTerm(k, IF i < Len(terms) THEN -1 ELSE 1, terms[i])]

WrittenDihedrals(types, objs, forward) ==
    LET hs == KeysInOrder(PrintedKeys(types, objs, forward))
    IN Flatten([i \in 1..Len(hs) |-> WrittenTorsion(hs[i], objs[types[hs[i]]])])

\* line 826: assert a4 == 'X', 'Malformed generic improper!'
MalformedGeneric(k) == k[2] = "X" /\ k[4] # "X"

\* lines 825-833: the atoms an improper is printed with
WrittenImproperKey(k) ==
    IF k[2] = "X" THEN <<k[2], k[4], k[3], k[1]>>
    ELSE IF k[4] = "X" THEN <<k[4], Min(k[1], k[2]), k[3], Max(k[1], k[2])>>
    ELSE LET s == Sorted3(k[1], k[2], k[4]) IN <<s[1], s[2], k[3], s[3]>>

\* lines 838-841
WrittenImpropers(imp) ==
    LET ks == KeysInOrder(DOMAIN imp)
    IN [i \in 1..Len(ks) |->
          Item("IMPROPER", [shape |-> "ok", key |-> WrittenImproperKey(ks[i]),
                            k |-> imp[ks[i]].phi_k, phi |-> imp[ks[i]].phase,
                            per |-> imp[ks[i]].per])]

\* lines 844-846: f'{atom:<2}  {typ.rmin:12.8f} {typ.epsilon:12.8f}'
WrittenNonbonded(at) ==
    [n \in 1..Cardinality(DOMAIN at) |->
        LET t == TypeNumbered(at, n)
        IN Item("NONBOND", [shape |-> "ok", type |-> t, rmin |-> at[t].rmin[1],
                            eps |-> at[t].epsilon[1]])]

\* rmin / 2, for the even values of the model
Half(x) == x \div 2

\* lines 849-854: f'{a1:<2} {a2:<2} {eps:12.8f} {rmin / 2:12.8f} {eps:12.8f}
\* {rmin / 2:12.8f}', the fields named as _process_nbfix_line reads them
WrittenNbfix(nb) ==
    LET ks == KeysInOrder(DOMAIN nb)
    IN [i \in 1..Len(ks) |->
          LET eps == nb[ks[i]][1]
              rmin == nb[ks[i]][2]
          IN Item("NBFIX", [shape |-> "ok", a1 |-> ks[i][1], a2 |-> ks[i][2],
                            rmin1 |-> eps, eps1 |-> Half(rmin),
                            rmin2 |-> eps, eps2 |-> Half(rmin)])]

\* how write ends: the assertion of line 826, then the format of a missing
\* LJ value (lines 845-846)
WriteError ==
    IF \E k \in DOMAIN improper_periodic_types : MalformedGeneric(k)
      THEN "AssertionError"
    ELSE IF \E t \in DOMAIN atom_types :
              atom_types[t].rmin = None \/ atom_types[t].epsilon = None
      THEN "TypeError"
    ELSE "none"

WrittenText(forward) ==
    WrittenMass(atom_types)
    \o WrittenBonds(bond_types, bond_objs, forward)
    \o WrittenAngles(angle_types, angle_objs, forward)
    \o WrittenDihedrals(dihedral_types, dihedral_objs, forward)
    \o WrittenImpropers(improper_periodic_types)
    \o WrittenNonbonded(atom_types)
    \o WrittenNbfix(nbfix_types)

Snapshot ==
    [atom_types |-> atom_types, bond_types |-> bond_types, bond_objs |-> bond_objs,
     angle_types |-> angle_types, angle_objs |-> angle_objs,
     dihedral_types |-> dihedral_types, dihedral_objs |-> dihedral_objs,
     improper_periodic_types |-> improper_periodic_types, nbfix_types |-> nbfix_types]

\* write(dest, style='frcmod') on the database as it is
Write(forward) ==
    /\ layout = "none"
    /\ original = <<>>
    /\ original' = <<Snapshot>>
    /\ exc' = WriteError
    /\ text' = IF WriteError = "none" THEN <<WrittenText(forward)>> ELSE <<>>
    /\ UNCHANGED <<dbVars, parseVars, titles, warnings, nlines, hist, last, leapVars,
                   base, handles, outfile, is_fmt, applied, resolved, c4out, reader, leap>>

\* AmberParameterSet(dest): a new database, load_parameters on the written
\* file (lines 197-228, 405-421: the line after the title is MASS)
LoadWritten ==
    /\ text # <<>>
    /\ base = <<>>
    /\ base' = <<nlines>>
    /\ atom_types' = EmptyDict
    /\ bond_types' = EmptyDict /\ bond_objs' = EmptyDict
    /\ angle_types' = EmptyDict /\ angle_objs' = EmptyDict
    /\ dihedral_types' = EmptyDict /\ dihedral_objs' = EmptyDict
    /\ improper_periodic_types' = EmptyDict
    /\ nbfix_types' = EmptyDict
    /\ titles' = <<Len(titles) + 1>>
    /\ hist' = <<>>
    /\ layout' = "frcmod"
    /\ section' = "NONE"
    /\ UNCHANGED <<finished_diheds, key, equivalent_ljtypes, equivalent_types, warnings,
                   exc, nlines, last, leapVars, text, original, handles, outfile,
                   is_fmt, applied, resolved, c4out, reader, leap>>

\* _parse_frcmod on the next line of the written file: its section header if
\* the parse is not in that section yet, the data line otherwise
ReadWritten ==
    /\ base # <<>>
    /\ layout = "frcmod"
    /\ LET pos == nlines - base[1] + 1 IN
       IF pos > Len(text[1]) THEN EndOfFrcmod
       ELSE LET it == text[1][pos] IN
            IF section # it.section THEN Header(it.section)
            ELSE CASE it.section = "MASS"     -> ProcessMassLine(it.line)
                   [] it.section = "BOND"     -> ProcessBondLine(it.line)
                   [] it.section = "ANGLE"    -> ProcessAngleLine(it.line)
                   [] it.section = "DIHEDRAL" -> ProcessDihedralLine(it.line)
                   [] it.section = "IMPROPER" -> ProcessImproperLine(it.line)
                   [] it.section = "NONBOND"  -> ProcessNonbondLine(it.line)
                   [] it.section = "NBFIX"    -> ProcessNbfixLine(it.line, FALSE)

(***************************************************************************)
(* Init: the database after AmberParameterSet() (lines 197-228).           *)
(***************************************************************************)
Init ==
    /\ atom_types = EmptyDict
    /\ bond_types = EmptyDict
    /\ bond_objs = EmptyDict
    /\ angle_types = EmptyDict
    /\ angle_objs = EmptyDict
    /\ dihedral_types = EmptyDict
    /\ dihedral_objs = EmptyDict
    /\ improper_periodic_types = EmptyDict
    /\ nbfix_types = EmptyDict
    /\ titles = <<>>
    /\ warnings = 0
    /\ layout = "none"
    /\ section = "NONE"
    /\ finished_diheds = EmptyDict
    /\ key = None
    /\ equivalent_ljtypes = <<>>
    /\ equivalent_types = EmptyDict
    /\ exc = "none"
    /\ nlines = 0
    /\ hist = <<>>
    /\ is_parm_loaded = [k \in {Parm10, Parm99, Parm15} |-> FALSE]
    /\ directives = <<>>
    /\ text = <<>>
    /\ original = <<>>
    /\ base = <<>>
    /\ handles = <<>>
    /\ outfile = <<>>
    /\ is_fmt = <<>>
    /\ applied = <<>>
    /\ resolved = <<>>
    /\ c4out = <<>>
    /\ reader = <<>>
    /\ leap = <<>>
    /\ last = [mass |-> EmptyDict, bond |-> EmptyDict, angle |-> EmptyDict,
               improper |-> EmptyDict, lj_named |-> EmptyDict, lj |-> EmptyDict,
               nbfix_named |-> EmptyDict, nbfix |-> EmptyDict, nbfix_line |-> <<>>,
               equiv |-> <<>>]

(***************************************************************************)
(* Spec: files of dihedral lines, in both layouts.                         *)
(***************************************************************************)
TorsionK == <<"CT", "CT", "N", "C">>
TorsionJ == <<"X", "CT", "CT", "X">>

\* the numeric fields of a full line and of a continuation-only line
FullFields == [div |-> 2, k |-> 4, phi |-> 180, scee |-> <<>>, scnb |-> <<10>>]
ContFields == [div |-> 1, k |-> 3, phi |-> 0, scee |-> <<15>>, scnb |-> <<>>]

DihedralPers == {-1, 0, 2}

DihedralLines ==
    { [shape |-> "full", key |-> k, div |-> FullFields.div, k |-> FullFields.k,
       phi |-> FullFields.phi, per |-> p, scee |-> FullFields.scee,
       scnb |-> FullFields.scnb] :
        k \in {TorsionK, Reversed(TorsionK), TorsionJ}, p \in DihedralPers }
    \cup
    { [shape |-> "cont", key |-> None, div |-> ContFields.div, k |-> ContFields.k,
       phi |-> ContFields.phi, per |-> p, scee |-> ContFields.scee,
       scnb |-> ContFields.scnb] : p \in DihedralPers }
    \cup
    { [shape |-> "bad", key |-> None, div |-> 1, k |-> 0, phi |-> 0, per |-> 0,
       scee |-> <<>>, scnb |-> <<>>] }

FirstMassLines == { [shape |-> "ok", type |-> "CT", mass |-> 12] }

Next ==
    \/ \E first \in {"eof", "frcmod", "parm"} : LoadParameters(first)
    \/ \E s \in {"DIHEDRAL", "BOND"} : Header(s)
    \/ UnsectionedLine(MaxLines)
    \/ EndOfFrcmod
    \/ MassLine(FirstMassLines, MaxLines)
    \/ ParmBlank
    \/ \E kind \in {"RE", "short"} : KindLine(kind)
    \/ EndNonbond(FALSE)
    \/ DihedralLine(DihedralLines, MaxLines)

Spec == Init /\ [][Next]_vars

(***************************************************************************)
(* Properties of the dihedral handler, over the history of the lines the   *)
(* current parse accepted.                                                 *)
(***************************************************************************)
SameTorsion(k1, k2) == k1 = k2 \/ k1 = Reversed(k2)

\* the last of the first n accepted lines that is about torsion k declared a
\* negative periodicity
PendingAfter(n, k) ==
    \E i \in 1..n :
        /\ SameTorsion(hist[i].key, k)
        /\ hist[i].per < 0
        /\ \A j \in (i+1)..n : ~SameTorsion(hist[j].key, k)

\* lines i..j: a full line, then lines of the same torsion, all but the last
\* with a negative periodicity, the last with a non-negative one
IsRun(i, j) ==
    /\ hist[i].shape = "full"
    /\ \A m \in (i+1)..j : SameTorsion(hist[m].key, hist[i].key)
    /\ \A m \in i..(j-1) : hist[m].per < 0
    /\ hist[j].per >= 0

\* line i is not itself a further line of the torsion before it
RunStart(i) ==
    i = 1 \/ hist[i-1].per >= 0 \/ ~SameTorsion(hist[i-1].key, hist[i].key)

RunTerms(i, j) == [m \in 1..(j - i + 1) |-> hist[i + m - 1].typ]

RunStored(i, j) ==
    LET k == hist[i].key IN
    /\ k \in DOMAIN dihedral_types
    /\ Reversed(k) \in DOMAIN dihedral_types
    /\ dihedral_types[Reversed(k)] = dihedral_types[k]
    /\ dihedral_objs[dihedral_types[k]] = RunTerms(i, j)

\* C1: every key of dihedral_types has its reversed key in dihedral_types, and
\* both map to the identical term-sequence object
C1_ReversedKeyIdentical ==
    \A k \in DOMAIN dihedral_types :
        /\ Reversed(k) \in DOMAIN dihedral_types
        /\ dihedral_types[Reversed(k)] = dihedral_types[k]
        /\ dihedral_types[k] \in DOMAIN dihedral_objs

\* a second term was appended through the reversed key and is seen through
\* the key the torsion was declared with
C1_Witness ==
    /\ Len(hist) = 2
    /\ hist[1].key = TorsionK /\ hist[1].per < 0
    /\ hist[2].shape = "full" /\ hist[2].key = Reversed(TorsionK)
    /\ Len(dihedral_objs[dihedral_types[TorsionK]]) = 2
    /\ Len(titles) = 2

\* C3 as stated: a run of n lines that starts a torsion and ends with the
\* first non-negative periodicity leaves exactly its n terms, in line order,
\* under the key and the reversed key
C3_Original ==
    \A i \in 1..Len(hist) :
        (IsRun(i, Len(hist)) /\ RunStart(i)) => RunStored(i, Len(hist))

\* C3 amended: the same, for a run whose key has no continuation pending when
\* its first line is read
C3_RunYieldsItsTerms ==
    \A i \in 1..Len(hist) :
        (IsRun(i, Len(hist)) /\ RunStart(i) /\ ~PendingAfter(i - 1, hist[i].key))
            => RunStored(i, Len(hist))

\* a run of three lines (full, continuation-only, full with the reversed key)
\* has just been stored
C3_Witness ==
    /\ Len(hist) >= 3
    /\ LET i == Len(hist) - 2 IN
        /\ IsRun(i, Len(hist)) /\ RunStart(i) /\ ~PendingAfter(i - 1, hist[i].key)
        /\ hist[i+1].shape = "cont"
        /\ hist[i+2].shape = "full" /\ hist[i+2].key = Reversed(hist[i].key)
        /\ hist[i+2].key # hist[i].key
        /\ Len(dihedral_objs[dihedral_types[hist[i].key]]) = 3

\* the step accepted one more dihedral line
AcceptsLine == Len(hist') = Len(hist) + 1

\* C4: an accepted dihedral line for key K stores a fresh one-term sequence
\* under K and reversed K exactly when K has no continuation pending in this
\* parse; otherwise its term is appended to the existing sequence and no
\* sequence is created
C4_FreshIffNotPending ==
    [][AcceptsLine =>
        LET ln == hist'[Len(hist')]
            k  == ln.key
        IN IF ~PendingAfter(Len(hist), k)
             THEN /\ dihedral_types'[k] \notin DOMAIN dihedral_objs
                  /\ dihedral_types'[Reversed(k)] = dihedral_types'[k]
                  /\ dihedral_objs'[dihedral_types'[k]] = <<ln.typ>>
             ELSE /\ k \in DOMAIN dihedral_types
                  /\ dihedral_types' = dihedral_types
                  /\ DOMAIN dihedral_objs' = DOMAIN dihedral_objs
                  /\ dihedral_objs'[dihedral_types[k]] =
                        Append(dihedral_objs[dihedral_types[k]], ln.typ)
                  /\ \A h \in DOMAIN dihedral_objs \ {dihedral_types[k]} :
                        dihedral_objs'[h] = dihedral_objs[h]
    ]_vars

\* K was left pending, another torsion's line came between, the next line for
\* K was appended, and the line after that one started K afresh
C4_Witness ==
    /\ Len(hist) = 4
    /\ hist[1].key = TorsionK /\ hist[1].per < 0
    /\ hist[2].key = TorsionJ
    /\ hist[3].key = TorsionK /\ hist[3].per >= 0
    /\ hist[4].key = Reversed(TorsionK)
    /\ dihedral_objs[dihedral_types[TorsionK]] = <<hist[4].typ>>

(***************************************************************************)
(* SpecScalar: files of mass, bond, angle, improper, nonbonded and LJEDIT  *)
(* lines, in both layouts, with an equivalencing table in the parm.dat     *)
(* layout.                                                                 *)
(***************************************************************************)
MassLines ==
    { [shape |-> "ok", type |-> "N", mass |-> 14],
      [shape |-> "ok", type |-> "N", mass |-> 16],
      [shape |-> "ok", type |-> "NA", mass |-> 14] }

\* the mass line that makes O a type other types can be equivalenced to
OxygenMassLines == { [shape |-> "ok", type |-> "O", mass |-> 16] }

BondLines ==
    { [shape |-> "ok", key |-> <<"CT", "N">>, k |-> 300, eq |-> 15],
      [shape |-> "ok", key |-> <<"N", "CT">>, k |-> 310, eq |-> 14] }

BadBondLines == { [shape |-> "bad", key |-> <<"CT", "N">>, k |-> 0, eq |-> 0] }

AngleLines ==
    { [shape |-> "ok", key |-> <<"CT", "N", "H">>, k |-> 50, eq |-> 109],
      [shape |-> "ok", key |-> <<"H", "N", "CT">>, k |-> 55, eq |-> 120] }

BadAngleLines == { [shape |-> "bad", key |-> <<"CT", "N", "H">>, k |-> 0, eq |-> 0] }

ImproperLines ==
    { [shape |-> "ok", key |-> <<"X", "CT", "N", "H">>, k |-> 1, phi |-> 180, per |-> 2],
      [shape |-> "ok", key |-> <<"H", "X", "N", "CT">>, k |-> 10, phi |-> 180, per |-> 2] }

NonbondLines ==
    { [shape |-> "ok", type |-> "N", rmin |-> 18, eps |-> 17],
      [shape |-> "ok", type |-> "NA", rmin |-> 18, eps |-> 16],
      [shape |-> "ok", type |-> "NA", rmin |-> 30, eps |-> 2] }

NbfixLines ==
    { [shape |-> "ok", a1 |-> "NA", a2 |-> "O", rmin1 |-> 1, eps1 |-> 4, rmin2 |-> 2, eps2 |-> 4],
      [shape |-> "ok", a1 |-> "N", a2 |-> "O", rmin1 |-> 2, eps1 |-> 1, rmin2 |-> 3, eps2 |-> 9],
      [shape |-> "ok", a1 |-> "O", a2 |-> "N", rmin1 |-> 3, eps1 |-> 2, rmin2 |-> 3, eps2 |-> 8] }

EquivLines ==
    { [canon |-> "N", equivs |-> <<"NA">>],
      [canon |-> "N", equivs |-> <<"N2", "NA">>],
      [canon |-> "O", equivs |-> <<"o">>] }

NextScalar ==
    \/ \E first \in {"eof", "frcmod", "parm"} : LoadParameters(first)
    \/ \E s \in FrcmodSections \ {"DIHEDRAL"} : Header(s)
    \/ UnsectionedLine(MaxLines)
    \/ EndOfFrcmod
    \/ ParmBlank
    \/ \E shape \in {"zero", "nonzero"} : TenTwelveLine(shape, MaxLines)
    \/ EquivLine(EquivLines)
    \/ \E kind \in {"RE", "short"} : KindLine(kind)
    \/ \E ljedit \in BOOLEAN : EndNonbond(ljedit)
    \/ EndOfParm
    \/ MassLine(MassLines, MaxLines)
    \/ BondLine(BondLines, MaxLines)
    \/ AngleLine(AngleLines, MaxLines)
    \/ ImproperLine(ImproperLines, MaxLines)
    \/ NonbondLine(NonbondLines, MaxLines)
    \/ NbfixLine(NbfixLines, MaxLines)

SpecScalar == Init /\ [][NextScalar]_vars

(***************************************************************************)
(* SpecBonded: files of bond and angle lines, some of which do not parse.  *)
(***************************************************************************)
NextBonded ==
    \/ \E first \in {"eof", "frcmod", "parm"} : LoadParameters(first)
    \/ \E s \in {"BOND", "ANGLE"} : Header(s)
    \/ EndOfFrcmod
    \/ MassLine(FirstMassLines, MaxLines)
    \/ ParmBlank
    \/ BondLine(BondLines \cup BadBondLines, MaxLines)
    \/ AngleLine(AngleLines \cup BadAngleLines, MaxLines)

SpecBonded == Init /\ [][NextBonded]_vars

(***************************************************************************)
(* SpecNbfix: the nonbonded part of a file: masses, the equivalencing      *)
(* table, nonbonded lines and LJEDIT lines.                                *)
(***************************************************************************)
NextNbfix ==
    \/ \E first \in {"frcmod", "parm"} : LoadParameters(first)
    \/ \E s \in {"MASS", "NONBOND", "NBFIX"} : Header(s)
    \/ EndOfFrcmod
    \/ ParmBlank
    \/ EquivLine(EquivLines)
    \/ KindLine("RE")
    \/ \E ljedit \in BOOLEAN : EndNonbond(ljedit)
    \/ EndOfParm
    \/ MassLine(MassLines \cup OxygenMassLines, MaxNbfixLines)
    \/ NonbondLine(NonbondLines, MaxNbfixLines)
    \/ NbfixLine(NbfixLines, MaxNbfixLines)

SpecNbfix == Init /\ [][NextNbfix]_vars

(***************************************************************************)
(* Properties of the bond and angle handlers.                              *)
(***************************************************************************)
\* C2: every key (a1,a2) of bond_types has (a2,a1) in bond_types, mapped to the
\* identical record, and every key (a1,a2,a3) of angle_types has (a3,a2,a1) in
\* angle_types, mapped to the identical record, whatever lines (failing ones
\* included) and however many loads came before
C2_BondAngleReversedIdentical ==
    /\ \A k \in DOMAIN bond_types :
        /\ <<k[2], k[1]>> \in DOMAIN bond_types
        /\ bond_types[<<k[2], k[1]>>] = bond_types[k]
        /\ bond_types[k] \in DOMAIN bond_objs
    /\ \A k \in DOMAIN angle_types :
        /\ <<k[3], k[2], k[1]>> \in DOMAIN angle_types
        /\ angle_types[<<k[3], k[2], k[1]>>] = angle_types[k]
        /\ angle_types[k] \in DOMAIN angle_objs

\* in a second file a bond line overwrote the record of the first file through
\* the reversed key, an angle line was stored, and then a line failed to parse
C2_Witness ==
    /\ Len(titles) = 2
    /\ exc = "ParameterError"
    /\ nlines = 4
    /\ <<"CT", "N">> \in DOMAIN bond_types
    /\ bond_objs[bond_types[<<"CT", "N">>]] = BondType(310, 14)
    /\ <<"H", "N", "CT">> \in DOMAIN angle_types
    /\ angle_objs[angle_types[<<"H", "N", "CT">>]] = AngleType(50, 109)

(***************************************************************************)
(* Last occurrence wins, over the history `last`.                          *)
(***************************************************************************)
\* the sorted key of an unordered pair of names
PairKey(p) == CHOOSE k \in {SortedPair(a, b) : a \in p, b \in p} : {k[1], k[2]} = p

\* what an LJEDIT line with the fields v = <<rmin1, eps1, rmin2, eps2>> gives
Combined(v) == <<Sqrt(v[2] * v[4]), v[1] + v[3]>>

BondLastWins ==
    \A p \in DOMAIN last.bond : \A a \in p, b \in p :
        (p = {a, b}) =>
            /\ <<a, b>> \in DOMAIN bond_types
            /\ bond_objs[bond_types[<<a, b>>]] = last.bond[p]

AngleLastWins ==
    \A p \in DOMAIN last.angle : \A k \in p :
        /\ k \in DOMAIN angle_types
        /\ angle_objs[angle_types[k]] = last.angle[p]

ImproperLastWins ==
    \A g \in DOMAIN last.improper :
        LET ks == {k \in DOMAIN improper_periodic_types :
                      k[3] = g[1] /\ Flanking(k) = g[2]}
        IN /\ ks # {}
           /\ \A k \in ks : improper_periodic_types[k] = last.improper[g]

MassLastWins ==
    \A t \in DOMAIN last.mass :
        t \in DOMAIN atom_types /\ atom_types[t].mass = last.mass[t]

\* the LJ values of a type are those of the last nonbonded line naming it
LJNamedLastWins ==
    \A t \in DOMAIN last.lj_named :
        <<atom_types[t].epsilon, atom_types[t].rmin>> = last.lj_named[t]

\* ... or those a later end of a nonbonded section copied from its canonical type
LJLastWins ==
    \A t \in DOMAIN last.lj :
        <<atom_types[t].epsilon, atom_types[t].rmin>> = last.lj[t]

\* the NBFIX value of a pair is that of the last LJEDIT line naming the pair
NbfixNamedLastWins ==
    \A p \in DOMAIN last.nbfix_named :
        /\ PairKey(p) \in DOMAIN nbfix_types
        /\ nbfix_types[PairKey(p)] = Combined(last.nbfix_named[p])

\* ... or reaching the pair through the equivalencing table of its file
NbfixLastWins ==
    \A p \in DOMAIN last.nbfix :
        /\ PairKey(p) \in DOMAIN nbfix_types
        /\ nbfix_types[PairKey(p)] = Combined(last.nbfix[p])

\* C7 as stated: each bond, angle, improper, NBFIX, mass and LJ record is the one
\* given by the last processed line that names its key
C7_Original ==
    /\ BondLastWins /\ AngleLastWins /\ ImproperLastWins /\ MassLastWins
    /\ LJNamedLastWins
    /\ NbfixNamedLastWins

\* C7 amended: each bond, angle, improper and mass record is the one given by
\* the last processed line that names its key; the NBFIX value of a pair is the
\* one given by the last LJEDIT line that names the pair or reaches it through
\* the equivalencing table; the LJ values of a type are those of the last
\* nonbonded line naming it or of a later copy from its canonical type
C7_LastWins ==
    /\ BondLastWins /\ AngleLastWins /\ ImproperLastWins /\ MassLastWins
    /\ LJLastWins
    /\ NbfixLastWins

\* a second file's bond line (reversed key) replaced the first file's record,
\* and of two LJEDIT lines the later one, naming another pair, reached the pair
\* of the earlier one
C7_Witness ==
    /\ Len(titles) = 2
    /\ {"CT", "N"} \in DOMAIN last.bond
    /\ last.bond[{"CT", "N"}] = BondType(310, 14)
    /\ bond_objs[bond_types[<<"CT", "N">>]] = BondType(310, 14)
    /\ {"NA", "O"} \in DOMAIN last.nbfix_named
    /\ last.nbfix[{"NA", "O"}] # last.nbfix_named[{"NA", "O"}]

(***************************************************************************)
(* Propagation of an LJEDIT line through the equivalencing table.          *)
(***************************************************************************)
\* the step processed an LJEDIT line without an error
AcceptsNbfixLine == section = "NBFIX" /\ nlines' = nlines + 1 /\ exc' = "none"

\* E(t): the types equivalenced to t in the table of the file being parsed
\* (none in the frcmod layout)
EquivalencedTo(t) ==
    IF layout = "parm" THEN Range(Equivalents(equivalent_types, t)) ELSE {}

\* ({a1} union E(a1)) x ({a2} union E(a2)), as sorted keys
CrossProduct(a1, a2) ==
    {SortedPair(x, y) : x \in {a1} \cup EquivalencedTo(a1),
                        y \in {a2} \cup EquivalencedTo(a2)}

\* C10: an accepted LJEDIT line for (a1, a2) leaves the combined value of the
\* line under every pair of ({a1} union E(a1)) x ({a2} union E(a2)) and leaves
\* every other NBFIX entry as it was; in the frcmod layout E is empty
C10_TouchesCrossProduct ==
    [][AcceptsNbfixLine =>
        LET ln == last'.nbfix_line[1]
            ks == CrossProduct(ln.a1, ln.a2)
        IN /\ \A k \in ks :
                k \in DOMAIN nbfix_types' /\ nbfix_types'[k] = NbfixValue(ln)
           /\ \A k \in DOMAIN nbfix_types' \ ks :
                k \in DOMAIN nbfix_types /\ nbfix_types'[k] = nbfix_types[k]
           /\ layout = "frcmod" => ks = {SortedPair(ln.a1, ln.a2)}
    ]_vars

\* a parm.dat file equivalenced NA to N and o to O, and its LJEDIT line for
\* (N, O) left four entries
C10_Witness ==
    /\ layout = "parm" /\ section = "NBFIX"
    /\ Equivalents(equivalent_types, "N") = <<"NA">>
    /\ Equivalents(equivalent_types, "O") = <<"o">>
    /\ last.nbfix_line # <<>>
    /\ last.nbfix_line[1].a1 = "N" /\ last.nbfix_line[1].a2 = "O"
    /\ DOMAIN nbfix_types =
          {<<"N", "O">>, <<"NA", "O">>, <<"N", "o">>, <<"NA", "o">>}
    /\ \A k \in DOMAIN nbfix_types : nbfix_types[k] = NbfixValue(last.nbfix_line[1])

\* the table N -> [NA] lost NA because the LJ values of N and NA differ, and the
\* LJEDIT line for (N, O) left the one entry (N, O)
C10_WitnessExcluded ==
    /\ layout = "parm" /\ section = "NBFIX"
    /\ warnings = 1
    /\ "N" \in DOMAIN equivalent_types /\ equivalent_types["N"] = <<>>
    /\ DOMAIN nbfix_types = {<<"N", "O">>}

(***************************************************************************)
(* SpecLeaprc: one from_leaprc call over a stream of loadamberparams       *)
(* directives.                                                             *)
(***************************************************************************)
LeaprcNames == {Parm10, Parm99, Parm15Dat, Parm15Ipq, Parm15, Parm1, Frcmod14SB}

NextLeaprc == \E fname \in LeaprcNames : LoadAmberParams(fname)

SpecLeaprc == Init /\ [][NextLeaprc]_vars

(***************************************************************************)
(* Properties of the directive stream, over the history `directives`.      *)
(***************************************************************************)
\* the class of files that are loaded once: the name itself for parm10.dat and
\* parm99.dat, parm15 for every name that starts with parm15, None otherwise
OnceClass(fname) ==
    IF fname \in {Parm10, Parm99} THEN fname
    ELSE IF StartsWith(fname, Parm15) THEN Parm15
    ELSE None

\* directive i names a load-once file whose class an earlier directive named
Repeated(i) ==
    /\ OnceClass(directives[i].fname) # None
    /\ \E h \in 1..(i - 1) :
          OnceClass(directives[h].fname) = OnceClass(directives[i].fname)

\* the database and the titles before directive i
DbBefore(i) ==
    IF i = 1
      THEN <<<<EmptyDict, EmptyDict, EmptyDict, EmptyDict, EmptyDict, EmptyDict,
               EmptyDict, EmptyDict, EmptyDict>>, <<>>>>
      ELSE directives[i - 1].db

RECURSIVE LoadedNames(_)
\* the files of the first n directives that are not repeated, in directive order
LoadedNames(n) ==
    IF n = 0 THEN <<>>
    ELSE IF ~Repeated(n) /\ directives[n].fname \in DOMAIN Files
      THEN Append(LoadedNames(n - 1), directives[n].fname)
      ELSE LoadedNames(n - 1)

\* C5: a loadamberparams directive is skipped exactly when it names parm10.dat,
\* parm99.dat or a parm15* file and an earlier directive named the same class;
\* a skipped directive warns once and leaves the database as it was; every
\* other directive has its file loaded, each time, in directive order
C5_LoadedUnlessRepeated ==
    /\ \A i \in 1..Len(directives) :
        /\ (directives[i].outcome = "skipped") <=> Repeated(i)
        /\ Repeated(i) => directives[i].db = DbBefore(i)
        /\ (~Repeated(i) /\ directives[i].fname \in DOMAIN Files)
              => directives[i].outcome = "loaded"
    /\ warnings = Cardinality({i \in 1..Len(directives) : Repeated(i)})
    /\ titles = LoadedNames(Len(directives))

\* parm10.dat and a parm15 file were loaded, then another parm15 file and
\* parm10.dat were skipped
C5_Witness ==
    /\ Len(directives) = 4
    /\ directives[1].fname = Parm10 /\ directives[1].outcome = "loaded"
    /\ directives[2].fname = Parm15Ipq /\ directives[2].outcome = "loaded"
    /\ directives[3].fname = Parm15Dat /\ directives[3].outcome = "skipped"
    /\ directives[4].fname = Parm10 /\ directives[4].outcome = "skipped"
    /\ warnings = 2
    /\ titles = <<Parm10, Parm15Ipq>>

\* the bond record under key k in the database that directive i left
BondAfter(i, k) == directives[i].db[1][3][directives[i].db[1][2][k]]

\* C6: when a load-once file K is named, then a file F is loaded, then K (or a
\* file of its class) is named again, the database after the third directive
\* is the database after the second, with every bond entry that F wrote
C6_RepeatedReferenceKeepsOverrides ==
    \A j \in 3..Len(directives) :
        LET K == directives[j - 2].fname
            F == directives[j - 1].fname
        IN (/\ OnceClass(K) # None
            /\ OnceClass(directives[j].fname) = OnceClass(K)
            /\ ~Repeated(j - 1)
            /\ F \in DOMAIN Files)
           => /\ directives[j].db = directives[j - 1].db
              /\ \A n \in 1..Len(Files[F]) :
                    BondAfter(j, Files[F][n].key) = BondType(Files[F][n].k, Files[F][n].eq)

\* parm10.dat, then the frcmod file that overrides its CT-N bond, then
\* parm10.dat again: the bond is the one of the frcmod file
C6_Witness ==
    /\ Len(directives) = 3
    /\ directives[1].fname = Parm10
    /\ directives[2].fname = Frcmod14SB
    /\ directives[3].fname = Parm10
    /\ bond_objs[bond_types[<<"CT", "N">>]] = BondType(310, 14)
    /\ bond_objs[bond_types[<<"CT", "C">>]] = BondType(317, 15)

(***************************************************************************)
(* SpecRoundTrip: a database is built from frcmod files, written, and the  *)
(* written file is parsed into a new database.                             *)
(***************************************************************************)
RoundTripMassLines == { [shape |-> "ok", type |-> "N", mass |-> 14] }

RoundTripNonbondLines == { [shape |-> "ok", type |-> "N", rmin |-> 18, eps |-> 17] }

RoundTripDihedralLines ==
    { [shape |-> "full", key |-> k, div |-> FullFields.div, k |-> FullFields.k,
       phi |-> FullFields.phi, per |-> p, scee |-> FullFields.scee,
       scnb |-> FullFields.scnb] : k \in {TorsionK, Reversed(TorsionK)}, p \in {-1, 2} }
    \cup
    { [shape |-> "cont", key |-> None, div |-> ContFields.div, k |-> ContFields.k,
       phi |-> ContFields.phi, per |-> 3, scee |-> ContFields.scee,
       scnb |-> ContFields.scnb] }

\* one wildcard, two wildcards, and both with type names that sort after X
RoundTripImproperLines ==
    { [shape |-> "ok", key |-> k, k |-> 10, phi |-> 180, per |-> 2] :
        k \in { <<"X", "CT", "N", "H">>, <<"X", "X", "N", "O">>,
                <<"X", "X", "c", "o">>, <<"X", "O", "c", "o">> } }

\* the first line leaves (epsilon, rmin) = (4, 4), the second (2, 4)
RoundTripNbfixLines ==
    { [shape |-> "ok", a1 |-> "NA", a2 |-> "O", rmin1 |-> 1, eps1 |-> 4, rmin2 |-> 3, eps2 |-> 4],
      [shape |-> "ok", a1 |-> "N", a2 |-> "O", rmin1 |-> 2, eps1 |-> 2, rmin2 |-> 2, eps2 |-> 2] }

\* nothing was written yet
Building == original = <<>>

NextRoundTrip ==
    \/ Building /\ LoadParameters("frcmod")
    \/ Building /\ \E s \in FrcmodSections : Header(s)
    \/ Building /\ EndOfFrcmod
    \/ Building /\ MassLine(RoundTripMassLines, MaxLines)
    \/ Building /\ BondLine(BondLines, MaxLines)
    \/ Building /\ AngleLine(AngleLines, MaxLines)
    \/ Building /\ DihedralLine(RoundTripDihedralLines, MaxLines)
    \/ Building /\ ImproperLine(RoundTripImproperLines, MaxLines)
    \/ Building /\ NonbondLine(RoundTripNonbondLines, MaxLines)
    \/ Building /\ NbfixLine(RoundTripNbfixLines, MaxLines)
    \/ \E forward \in BOOLEAN : Write(forward)
    \/ LoadWritten
    \/ ReadWritten

SpecRoundTrip == Init /\ [][NextRoundTrip]_vars

(***************************************************************************)
(* Properties of the round trip.                                           *)
(***************************************************************************)
\* write() was called on a database in which every atom type has LJ values
WrittenWithLJ ==
    /\ original # <<>>
    /\ \A t \in DOMAIN original[1].atom_types :
          /\ original[1].atom_types[t].rmin # None
          /\ original[1].atom_types[t].epsilon # None

\* the written file was read to its end
ReadBack == base # <<>> /\ layout = "none"

SameKeySets ==
    /\ DOMAIN atom_types = DOMAIN original[1].atom_types
    /\ DOMAIN bond_types = DOMAIN original[1].bond_types
    /\ DOMAIN angle_types = DOMAIN original[1].angle_types
    /\ DOMAIN dihedral_types = DOMAIN original[1].dihedral_types
    /\ DOMAIN improper_periodic_types = DOMAIN original[1].improper_periodic_types
    /\ DOMAIN nbfix_types = DOMAIN original[1].nbfix_types

SameBondedRecords ==
    /\ \A k \in DOMAIN original[1].bond_types :
          bond_objs[bond_types[k]] = original[1].bond_objs[original[1].bond_types[k]]
    /\ \A k \in DOMAIN original[1].angle_types :
          angle_objs[angle_types[k]] = original[1].angle_objs[original[1].angle_types[k]]
    /\ \A k \in DOMAIN original[1].improper_periodic_types :
          improper_periodic_types[k] = original[1].improper_periodic_types[k]
    /\ \A k \in DOMAIN original[1].dihedral_types :
          dihedral_objs[dihedral_types[k]]
             = original[1].dihedral_objs[original[1].dihedral_types[k]]

\* C8: write(style='frcmod') on a database built by the parser, with LJ values
\* on every atom type, produces a text, and parsing that text into an empty
\* database gives the same key sets, equal bond, angle and improper records and
\* the same term sequence for every torsion
C8_RoundTrip ==
    /\ WrittenWithLJ => text # <<>>
    /\ (WrittenWithLJ /\ ReadBack) =>
          exc = "none" /\ SameKeySets /\ SameBondedRecords

\* a database with a bond, a two-term torsion given through the reversed key
\* and a one-wildcard improper came back from the written text
C8_Witness ==
    /\ WrittenWithLJ /\ ReadBack
    /\ exc = "none" /\ SameKeySets /\ SameBondedRecords
    /\ DOMAIN bond_types # {}
    /\ TorsionK \in DOMAIN dihedral_types
    /\ Len(dihedral_objs[dihedral_types[TorsionK]]) = 2
    /\ <<"CT", "H", "N", "X">> \in DOMAIN improper_periodic_types

\* C9: every NBFIX entry (a1,a2) -> (epsilon, rmin) is stored again, under the
\* same key with the same value, when the LJEDIT line that write emits for it
\* is processed by the LJEDIT line handler
C9_NbfixRoundTrip ==
    (ReadBack /\ exc = "none") =>
        \A k \in DOMAIN original[1].nbfix_types :
            /\ k \in DOMAIN nbfix_types
            /\ nbfix_types[k] = original[1].nbfix_types[k]

\* an NBFIX entry whose radius is twice its well depth came back as it was
C9_Witness ==
    /\ ReadBack /\ exc = "none"
    /\ original[1].nbfix_types = (<<"N", "O">> :> <<2, 4>>)
    /\ nbfix_types = original[1].nbfix_types

(***************************************************************************)
(* SpecEquiv: parm.dat files whose equivalencing table lists a type twice, *)
(* under two canonical types, or lists a canonical type itself.            *)
(***************************************************************************)
EquivMassLines ==
    { [shape |-> "ok", type |-> "N", mass |-> 14],
      [shape |-> "ok", type |-> "NA", mass |-> 14],
      [shape |-> "ok", type |-> "O", mass |-> 16] }

EquivNonbondLines ==
    { [shape |-> "ok", type |-> "N", rmin |-> 18, eps |-> 17],
      [shape |-> "ok", type |-> "NA", rmin |-> 18, eps |-> 16],
      [shape |-> "ok", type |-> "NA", rmin |-> 30, eps |-> 2],
      [shape |-> "ok", type |-> "O", rmin |-> 30, eps |-> 2] }

EquivTableLines ==
    { [canon |-> "N", equivs |-> <<"NA">>],
      [canon |-> "N", equivs |-> <<"NA", "NA">>],
      [canon |-> "O", equivs |-> <<"NA">>],
      [canon |-> "NA", equivs |-> <<"O">>] }

EquivNbfixLines ==
    { [shape |-> "ok", a1 |-> "N", a2 |-> "CT", rmin1 |-> 2, eps1 |-> 1, rmin2 |-> 3, eps2 |-> 9],
      [shape |-> "ok", a1 |-> "CT", a2 |-> "O", rmin1 |-> 1, eps1 |-> 4, rmin2 |-> 2, eps2 |-> 4] }

NextEquiv ==
    \/ LoadParameters("parm")
    \/ ParmBlank
    \/ EquivLine(EquivTableLines)
    \/ KindLine("RE")
    \/ \E ljedit \in BOOLEAN : EndNonbondRecorded(ljedit)
    \/ EndOfParm
    \/ MassLine(EquivMassLines, MaxNbfixLines)
    \/ NonbondLine(EquivNonbondLines, MaxNbfixLines)
    \/ NbfixLine(EquivNbfixLines, MaxNbfixLines)

SpecEquiv == Init /\ [][NextEquiv]_vars

(***************************************************************************)
(* The copy of LJ values to equivalenced types, over the history that      *)
(* EndNonbond leaves in last.equiv: the atom types before and after the    *)
(* loop of lines 572-585, the table as read, and the warnings of line 579. *)
(***************************************************************************)
\* <<epsilon, rmin>> of a type, each None or <<value>>
LJOf(at, t) == IF t \in DOMAIN at THEN <<at[t].epsilon, at[t].rmin>> ELSE <<None, None>>

HasLJ(v) == v[1] # None /\ v[2] # None

\* both have LJ values, within TINY of each other
Within(v, w) ==
    /\ HasLJ(v) /\ HasLJ(w)
    /\ Abs(v[1][1] - w[1][1]) <= TINY
    /\ Abs(v[2][1] - w[2][1]) <= TINY

\* the <<t, c>> such that the table lists t under the canonical type c
Listed(table) == UNION { { <<t, c>> : t \in Range(table[c]) } : c \in DOMAIN table }

Count(seq, x) == Cardinality({i \in 1..Len(seq) : seq[i] = x})

\* what the claim asks of one listing of t under c
CopiedOrWarned(e, t, c) ==
    LET tv == LJOf(e.before, t)
        cv == LJOf(e.before, c)
    IN  IF ~HasLJ(tv) \/ Within(tv, cv)
          THEN LJOf(e.after, t) = LJOf(e.after, c)
          ELSE LJOf(e.after, t) = tv /\ Count(e.warned, <<t, c>>) = 1

\* C11: after the nonbonded section of a parm.dat file, every type t that the
\* table lists under c and that is an atom type has c's LJ values if it had
\* none or had values within TINY of c's, and otherwise keeps its values with
\* exactly one warning for the pairing
C11_EquivalencedCopied ==
    last.equiv # <<>> =>
        \A p \in Listed(last.equiv[1].table) :
            p[1] \in DOMAIN last.equiv[1].before =>
                CopiedOrWarned(last.equiv[1], p[1], p[2])

\* the same for the tables the loop of lines 572-585 handles: the loop ends
\* without an error, every listed type is listed once, and no canonical type
\* is itself listed
C11_SingleListing ==
    (/\ last.equiv # <<>>
     /\ last.equiv[1].err = "none"
     /\ \A p \in Listed(last.equiv[1].table) :
            /\ \A c \in DOMAIN last.equiv[1].table :
                  Count(last.equiv[1].table[c], p[1]) = (IF c = p[2] THEN 1 ELSE 0)
            /\ p[1] \notin DOMAIN last.equiv[1].table)
    => \A p \in Listed(last.equiv[1].table) :
            p[1] \in DOMAIN last.equiv[1].before =>
                CopiedOrWarned(last.equiv[1], p[1], p[2])

\* NA, listed once under N, had values unlike those of N: kept, one warning
C11_Witness ==
    /\ last.equiv # <<>>
    /\ last.equiv[1].err = "none"
    /\ last.equiv[1].table = ("N" :> <<"NA">>)
    /\ LJOf(last.equiv[1].before, "NA") = <<<<2>>, <<30>>>>
    /\ LJOf(last.equiv[1].after, "NA") = <<<<2>>, <<30>>>>
    /\ last.equiv[1].warned = << <<"NA", "N">> >>

\* NA, listed once under N, had no values and got those of N
C11_WitnessCopied ==
    /\ last.equiv # <<>>
    /\ last.equiv[1].table = ("N" :> <<"NA">>)
    /\ ~HasLJ(LJOf(last.equiv[1].before, "NA"))
    /\ LJOf(last.equiv[1].after, "NA") = <<<<17>>, <<18>>>>

(***************************************************************************)
(* Exclusion from the propagation of LJEDIT lines.                         *)
(***************************************************************************)
\* the step leaves no new or changed NBFIX entry for the pair of t and b
LeavesPair(t, b) ==
    SortedPair(t, b) \in DOMAIN nbfix_types' =>
        /\ SortedPair(t, b) \in DOMAIN nbfix_types
        /\ nbfix_types'[SortedPair(t, b)] = nbfix_types[SortedPair(t, b)]

\* t was excluded from c, the line names c and b, and the pair of t and b is
\* not one the line reaches through b
ExcludedFrom(w, c, b) ==
    /\ w[2] = c
    /\ w[1] # c /\ w[1] # b
    /\ w[1] \notin EquivalencedTo(b)

\* C12: a type t excluded with a warning from its canonical type c gets no
\* NBFIX entry by propagation from an LJEDIT line of that file that names c
C12_ExcludedNotPropagated ==
    [][(AcceptsNbfixLine /\ layout = "parm") =>
        LET ln == last'.nbfix_line[1]
            ws == Range(last.equiv[1].warned)
        IN \A w \in ws :
              /\ ExcludedFrom(w, ln.a1, ln.a2) => LeavesPair(w[1], ln.a2)
              /\ ExcludedFrom(w, ln.a2, ln.a1) => LeavesPair(w[1], ln.a1)
    ]_vars

\* NA, listed once under N, was excluded, and the LJEDIT line for (N, CT) left
\* the one entry (CT, N)
C12_Witness ==
    /\ layout = "parm" /\ section = "NBFIX"
    /\ last.equiv[1].table = ("N" :> <<"NA">>)
    /\ last.equiv[1].warned = << <<"NA", "N">> >>
    /\ last.nbfix_line # <<>> /\ last.nbfix_line[1].a1 = "N"
    /\ DOMAIN nbfix_types = {<<"CT", "N">>}

(***************************************************************************)
(* The keys and values of nbfix_types.                                     *)
(***************************************************************************)
\* the key under which the pair of x and y belongs: the smaller name first
KeyOfPair(x, y) == IF Rank(x) <= Rank(y) THEN <<x, y>> ELSE <<y, x>>

\* C13: every key of nbfix_types has its names in lexical order; an accepted
\* LJEDIT line for (a1, a2) leaves (sqrt(eps1*eps2), rmin1+rmin2) under the
\* ordered key of its two names, which is the key a line for (a2, a1) uses
C13_NbfixKeysSorted ==
    [][/\ \A k \in DOMAIN nbfix_types' : Rank(k[1]) <= Rank(k[2])
       /\ AcceptsNbfixLine =>
            LET ln == last'.nbfix_line[1]
                k  == KeyOfPair(ln.a1, ln.a2)
            IN /\ k = KeyOfPair(ln.a2, ln.a1)
               /\ k \in DOMAIN nbfix_types'
               /\ nbfix_types'[k][1] * nbfix_types'[k][1] = ln.eps1 * ln.eps2
               /\ nbfix_types'[k][2] = ln.rmin1 + ln.rmin2
               /\ ln.a1 # ln.a2 => <<k[2], k[1]>> \notin DOMAIN nbfix_types'
    ]_vars

\* the line for (O, N) was the last one accepted and its value is under (N, O)
C13_Witness ==
    /\ last.nbfix_line # <<>>
    /\ last.nbfix_line[1].a1 = "O" /\ last.nbfix_line[1].a2 = "N"
    /\ <<"N", "O">> \in DOMAIN nbfix_types
    /\ <<"O", "N">> \notin DOMAIN nbfix_types
    /\ nbfix_types[<<"N", "O">>] = <<4, 6>>

(***************************************************************************)
(* SpecImproper: frcmod files of improper lines: the six orders of the     *)
(* flanking atoms N, C, H around CA, and lines with the wildcard X in      *)
(* position 2 or 4 among upper-case and lower-case names.                  *)
(***************************************************************************)
ImproperForce == {1, 10}

PermutedFlanks ==
    { <<"N", "C", "CA", "H">>, <<"N", "H", "CA", "C">>, <<"C", "N", "CA", "H">>,
      <<"C", "H", "CA", "N">>, <<"H", "N", "CA", "C">>, <<"H", "C", "CA", "N">> }

WildcardFlanks ==
    { <<"CT", "X", "N", "H">>, <<"H", "CT", "N", "X">>,
      <<"c", "X", "N", "o">>, <<"o", "c", "N", "X">>,
      <<"c", "X", "N", "X">>, <<"X", "X", "N", "H">> }

PermutedImproperLines ==
    { [shape |-> "ok", key |-> a, k |-> f, phi |-> 180, per |-> 2] :
        a \in PermutedFlanks \cup WildcardFlanks, f \in ImproperForce }

NextImproper ==
    \/ LoadParameters("frcmod")
    \/ Header("IMPROPER")
    \/ ImproperLine(PermutedImproperLines, MaxLines)
    \/ EndOfFrcmod

SpecImproper == Init /\ [][NextImproper]_vars

(***************************************************************************)
(* The keys of improper_periodic_types, over the history last.improper     *)
(* (per central atom and flanking atoms as given: the last accepted line). *)
(***************************************************************************)
\* the keys stored for the central atom and the flanking atoms of g
KeysOf(g) ==
    {k \in DOMAIN improper_periodic_types : k[3] = g[1] /\ Flanking(k) = g[2]}

\* the flanking atoms of g in lexical order
InOrder(g) ==
    CHOOSE s \in (DOMAIN g[2]) \X (DOMAIN g[2]) \X (DOMAIN g[2]) :
        /\ Flanking(<<s[1], s[2], g[1], s[3]>>) = g[2]
        /\ Rank(s[1]) <= Rank(s[2]) /\ Rank(s[2]) <= Rank(s[3])

\* C14: the improper of a line without wildcard is stored under the one key
\* that has atom 3 third and the other three atoms in lexical order first,
\* second and fourth, whatever their order in the line, with the record of the
\* last such line
C14_ImproperKeySorted ==
    \A g \in DOMAIN last.improper :
        "X" \notin DOMAIN g[2] =>
            LET s == InOrder(g)
                k == <<s[1], s[2], g[1], s[3]>>
            IN /\ KeysOf(g) = {k}
               /\ improper_periodic_types[k] = last.improper[g]

\* the line N-C-CA-H (k = 10) is stored under (C, H, CA, N)
C14_Witness ==
    /\ DOMAIN improper_periodic_types = {<<"C", "H", "CA", "N">>}
    /\ improper_periodic_types[<<"C", "H", "CA", "N">>] = ImproperType(10, 2, 180)
    /\ nlines >= 2

\* the flanking atoms of g with the wildcard first and the other two in
\* lexical order after it
WildcardFirst(g) ==
    CHOOSE s \in (DOMAIN g[2]) \X (DOMAIN g[2]) \X (DOMAIN g[2]) :
        /\ Flanking(<<s[1], s[2], g[1], s[3]>>) = g[2]
        /\ s[1] = "X"
        /\ Rank(s[2]) <= Rank(s[3])

\* C15: the improper of a line with the wildcard X in position 2 or 4 is
\* stored under the key that has X first, atom 3 third, and the other two
\* flanking atoms in lexical order second and fourth
C15_WildcardFirst ==
    \A g \in DOMAIN last.improper :
        "X" \in DOMAIN g[2] =>
            LET s == WildcardFirst(g)
                k == <<s[1], s[2], g[1], s[3]>>
            IN /\ k \in DOMAIN improper_periodic_types
               /\ improper_periodic_types[k] = last.improper[g]

\* among lower-case names the wildcard does come first: c-X-N-o is stored
\* under (X, c, N, o)
C15_Witness ==
    /\ <<"N", Flanking(<<"c", "X", "N", "o">>)>> \in DOMAIN last.improper
    /\ <<"X", "c", "N", "o">> \in DOMAIN improper_periodic_types

(***************************************************************************)
(* SpecErrors: files of both layouts with lines that each handler accepts  *)
(* and lines on which it raises.                                           *)
(***************************************************************************)
ErrMassLines ==
    { [shape |-> "ok", type |-> "N", mass |-> 14],
      [shape |-> "short", type |-> "N", mass |-> 0],
      [shape |-> "badfloat", type |-> "N", mass |-> 0] }

ErrBondLines == { [shape |-> "ok", key |-> <<"CT", "N">>, k |-> 300, eq |-> 15] } \cup BadBondLines

ErrAngleLines ==
    { [shape |-> "ok", key |-> <<"CT", "N", "H">>, k |-> 50, eq |-> 109] } \cup BadAngleLines

ErrDihedralLines ==
    {l \in DihedralLines : l.per \in {-1, 2} /\ l.key \in {None, TorsionK}}

ErrImproperLines ==
    { [shape |-> "ok", key |-> <<"X", "CT", "N", "H">>, k |-> 1, phi |-> 180, per |-> 2],
      [shape |-> "bad", key |-> <<"X", "CT", "N", "H">>, k |-> 0, phi |-> 0, per |-> 0] }

ErrNonbondLines ==
    { [shape |-> "ok", type |-> "N", rmin |-> 18, eps |-> 17],
      [shape |-> "ok", type |-> "NA", rmin |-> 18, eps |-> 16],
      [shape |-> "short", type |-> "N", rmin |-> 0, eps |-> 0],
      [shape |-> "badfloat", type |-> "N", rmin |-> 0, eps |-> 0] }

ErrNbfixLines ==
    { [shape |-> "ok", a1 |-> "N", a2 |-> "O", rmin1 |-> 2, eps1 |-> 1, rmin2 |-> 3, eps2 |-> 9],
      [shape |-> "ok", a1 |-> "N", a2 |-> "O", rmin1 |-> 2, eps1 |-> -1, rmin2 |-> 3, eps2 |-> 9],
      [shape |-> "short", a1 |-> "N", a2 |-> "O", rmin1 |-> 0, eps1 |-> 0, rmin2 |-> 0, eps2 |-> 0] }

NonbondKinds == {"RE", "re", "Re", "AC", "ac", "short"}

NextErrors ==
    \/ \E first \in {"frcmod", "parm"} : LoadParameters(first)
    \/ \E s \in FrcmodSections : Header(s)
    \/ EndOfFrcmod
    \/ ParmBlank
    \/ \E shape \in {"zero", "nonzero", "bad"} : TenTwelveLine(shape, MaxLines)
    \/ \E kind \in NonbondKinds : KindLine(kind)
    \/ \E ljedit \in BOOLEAN : EndNonbond(ljedit)
    \/ EndOfParm
    \/ MassLine(ErrMassLines, MaxLines)
    \/ BondLine(ErrBondLines, MaxLines)
    \/ AngleLine(ErrAngleLines, MaxLines)
    \/ DihedralLine(ErrDihedralLines, MaxLines)
    \/ ImproperLine(ErrImproperLines, MaxLines)
    \/ NonbondLine(ErrNonbondLines, MaxLines)
    \/ NbfixLine(ErrNbfixLines, MaxLines)

SpecErrors == Init /\ [][NextErrors]_vars

\* the step handed a line to a handler, which raised
LineRaises == nlines' = nlines + 1 /\ exc' # "none"

\* C16: when a line handler raises, the database and the titles are what the
\* earlier lines left (the title of the file among them) and the parse is
\* over: no later line of the file is read
C16_RaiseKeepsEarlierEntries ==
    [][LineRaises =>
        /\ <<dbVars, titles>>' = <<dbVars, titles>>
        /\ titles # <<>>
        /\ layout # "none" /\ layout' = "none"
    ]_vars

\* a bond line was stored, then the next line of the file made its handler
\* raise ParameterError
C16_Witness ==
    /\ exc = "ParameterError"
    /\ layout = "none"
    /\ nlines = 2
    /\ Len(titles) = 1
    /\ <<"CT", "N">> \in DOMAIN bond_types

(***************************************************************************)
(* SpecHandles: the file object of each operation.  An operation is given  *)
(* a file name (own_handle, it opens the file itself) or an open file      *)
(* object, and ends in one of the ways its code allows; the step is the    *)
(* whole call and records whether the call closed the file object.         *)
(***************************************************************************)
Used(op, own_handle, closed) ==
    /\ Len(handles) < MaxOps
    /\ handles' = Append(handles, [op |-> op, own_handle |-> own_handle, closed |-> closed])
    /\ UNCHANGED <<dbVars, parseVars, titles, warnings, exc, nlines, hist, last, leapVars,
                   text, original, base, outfile, is_fmt, applied, resolved, c4out, reader, leap>>

\* load_parameters, lines 405-424.  "title": f.readline() of line 411, before
\* the try statement, raises; "read": reading a later line raises; "parse": a
\* handler raises; "return".  Lines 422-424 close an own handle when the try
\* statement is left
LoadParametersEnds == {"title", "read", "parse", "return"}

LoadParametersCloses(own_handle, end) == own_handle /\ end # "title"

LoadParametersHandle(own_handle, end) ==
    Used("load_parameters", own_handle, LoadParametersCloses(own_handle, end))

\* from_leaprc, lines 273-298.  "read": reading the lines (line 296) raises;
\* "later": an error after line 298 (a file of a directive is not found);
\* "return".  Line 298 closes an own handle, outside any try statement
FromLeaprcEnds == {"read", "later", "return"}

FromLeaprcCloses(own_handle, end) == own_handle /\ end # "read"

FromLeaprcHandle(own_handle, end) ==
    Used("from_leaprc", own_handle, FromLeaprcCloses(own_handle, end))

\* write, lines 768-857.  "style": the ValueError of line 776, after the file
\* was opened at line 769; "writing": an error while the sections are written
\* (lines 826, 836); "return".  Lines 856-857 close an own handle at the end
WriteEnds == {"style", "writing", "return"}

WriteCloses(own_handle, end) == own_handle /\ end = "return"

WriteHandle(own_handle, end) ==
    Used("write", own_handle, WriteCloses(own_handle, end))

\* id_format, line 103: with closing(genopen(filename, 'r')); always a name
IdFormatEnds == {"read", "return"}

IdFormatCloses(end) == TRUE

IdFormatHandle(end) == Used("id_format", TRUE, IdFormatCloses(end))

NextHandles ==
    \/ \E own_handle \in BOOLEAN, end \in LoadParametersEnds :
          LoadParametersHandle(own_handle, end)
    \/ \E own_handle \in BOOLEAN, end \in FromLeaprcEnds : FromLeaprcHandle(own_handle, end)
    \/ \E own_handle \in BOOLEAN, end \in WriteEnds : WriteHandle(own_handle, end)
    \/ \E end \in IdFormatEnds : IdFormatHandle(end)

SpecHandles == Init /\ [][NextHandles]_vars

\* C17: every file object that an operation opened from a file name is closed
\* when the operation has ended, and a file object passed in by the caller is
\* not closed
C17_HandlesClosed ==
    \A i \in 1..Len(handles) : handles[i].closed = handles[i].own_handle

\* the part that holds: a file object of the caller is never closed, and
\* id_format always closes the file it opened
C17_CallerHandleLeftOpen ==
    \A i \in 1..Len(handles) :
        /\ ~handles[i].own_handle => ~handles[i].closed
        /\ handles[i].op = "id_format" => handles[i].closed

\* load_parameters opened a file by name and closed it, and write was given an
\* open file object and left it open
C17_Witness ==
    /\ Len(handles) = 2
    /\ handles[1] = [op |-> "load_parameters", own_handle |-> TRUE, closed |-> TRUE]
    /\ handles[2] = [op |-> "write", own_handle |-> FALSE, closed |-> FALSE]

(***************************************************************************)
(* Rejection of a parm.dat file at its 10-12 section or at its kind line.  *)
(***************************************************************************)
\* the step reads a 10-12 line with a nonzero coefficient, or a kind line whose
\* marker is not RE in any case
ReadsUnsupported ==
    \/ TenTwelveLine("nonzero", MaxLines)
    \/ \E kind \in {k \in NonbondKinds : k # "short" /\ Upper(k) # "RE"} : KindLine(kind)

\* the parse of a parm.dat file has not reached its nonbonded lines
BeforeNonbonded ==
    /\ layout = "parm"
    /\ section \in {"MASS1", "MASS", "BOND", "ANGLE", "DIHEDRAL", "IMPROPER",
                    "TENTWELVE", "EQUIV", "KIND"}

\* C18: a 10-12 line with a nonzero coefficient and a kind marker other than
\* RE (in any case) end the parse with ParameterError and leave the database
\* as the earlier sections of the file made it; up to there no step of the
\* parse has set an LJ value or an NBFIX entry
C18_UnsupportedRejected ==
    [][/\ ReadsUnsupported =>
            /\ exc' = "ParameterError"
            /\ layout' = "none"
            /\ dbVars' = dbVars
       /\ BeforeNonbonded =>
            /\ nbfix_types' = nbfix_types
            /\ \A t \in DOMAIN atom_types : LJOf(atom_types', t) = LJOf(atom_types, t)
            /\ \A t \in DOMAIN atom_types' \ DOMAIN atom_types :
                  ~HasLJ(LJOf(atom_types', t))
    ]_vars

\* a mass line and a bond line were stored and the kind line then ended the
\* parse with ParameterError: N has its mass and no LJ values
C18_Witness ==
    /\ exc = "ParameterError"
    /\ layout = "none"
    /\ nlines = 2
    /\ Len(titles) = 1
    /\ "N" \in DOMAIN atom_types /\ ~HasLJ(LJOf(atom_types, "N"))
    /\ <<"CT", "N">> \in DOMAIN bond_types

(***************************************************************************)
(* The nonbonded line handler and atom_types.                              *)
(***************************************************************************)
\* C19: a nonbonded line whose type is not an atom type raises ParameterError
\* and leaves atom_types as it was; a line whose type is one sets the radius
\* and the epsilon of that type and changes nothing else in atom_types
C19_NonbondNeverCreates ==
    [][\A line \in NonbondLines :
          (InSection("NONBOND", MaxLines) /\ ProcessNonbondLine(line)) =>
              IF line.type \notin DOMAIN atom_types
                THEN exc' = "ParameterError" /\ atom_types' = atom_types
                ELSE /\ exc' = "none"
                     /\ DOMAIN atom_types' = DOMAIN atom_types
                     /\ LJOf(atom_types', line.type) = <<<<line.eps>>, <<line.rmin>>>>
                     /\ atom_types'[line.type].mass = atom_types[line.type].mass
                     /\ atom_types'[line.type].number = atom_types[line.type].number
                     /\ \A t \in DOMAIN atom_types \ {line.type} :
                           atom_types'[t] = atom_types[t]
    ]_vars

\* N got its LJ values from a nonbonded line and the next nonbonded line, for
\* a type that is not an atom type, raised: N is still the only atom type
C19_Witness ==
    /\ exc = "ParameterError"
    /\ Len(titles) = 1
    /\ nlines = 3
    /\ DOMAIN atom_types = {"N"}
    /\ HasLJ(LJOf(atom_types, "N"))

(***************************************************************************)
(* SpecFrcmod: frcmod files of well-formed lines, their sections in any    *)
(* order, any number of times, any of them left out.                       *)
(***************************************************************************)
FrcmodMassLines == { [shape |-> "ok", type |-> "N", mass |-> 14] }

FrcmodBondLines == { [shape |-> "ok", key |-> <<"CT", "N">>, k |-> 300, eq |-> 15] }

FrcmodAngleLines == { [shape |-> "ok", key |-> <<"CT", "N", "H">>, k |-> 50, eq |-> 109] }

FrcmodDihedralLines ==
    {l \in DihedralLines : l.shape = "full" /\ l.key = TorsionK /\ l.per \in {-1, 2}}

FrcmodImproperLines ==
    { [shape |-> "ok", key |-> <<"X", "CT", "N", "H">>, k |-> 1, phi |-> 180, per |-> 2] }

FrcmodNonbondLines == { [shape |-> "ok", type |-> "N", rmin |-> 18, eps |-> 17] }

FrcmodNbfixLines ==
    { [shape |-> "ok", a1 |-> "N", a2 |-> "O", rmin1 |-> 2, eps1 |-> 1, rmin2 |-> 3, eps2 |-> 9] }

NextFrcmod ==
    \/ LoadParameters("frcmod")
    \/ \E s \in FrcmodSections : Header(s)
    \/ UnsectionedLine(MaxLines)
    \/ EndOfFrcmod
    \/ MassLine(FrcmodMassLines, MaxLines)
    \/ BondLine(FrcmodBondLines, MaxLines)
    \/ AngleLine(FrcmodAngleLines, MaxLines)
    \/ DihedralLine(FrcmodDihedralLines, MaxLines)
    \/ ImproperLine(FrcmodImproperLines, MaxLines)
    \/ NonbondLine(FrcmodNonbondLines, MaxLines)
    \/ NbfixLine(FrcmodNbfixLines, MaxLines)

SpecFrcmod == Init /\ [][NextFrcmod]_vars

\* the dictionaries that the handler of section s does not write are as they
\* were
OnlySectionWritten(s) ==
    /\ s \notin {"MASS", "NONBOND"} => atom_types' = atom_types
    /\ s # "BOND" => <<bond_types, bond_objs>>' = <<bond_types, bond_objs>>
    /\ s # "ANGLE" => <<angle_types, angle_objs>>' = <<angle_types, angle_objs>>
    /\ s # "DIHEDRAL" => <<dihedral_types, dihedral_objs>>' = <<dihedral_types, dihedral_objs>>
    /\ s # "IMPROPER" => improper_periodic_types' = improper_periodic_types
    /\ s # "NBFIX" => nbfix_types' = nbfix_types

Styles == {"frcmod", "parm", "xyz"}

\* lines 775-776
StyleError(style) == IF style \notin {"frcmod", "parm"} THEN "ValueError" ELSE "none"

TitleLine == Item("NONE", [shape |-> "title"])

BlankLine == Item("NONE", [shape |-> "blank"])

\* outfile.write('MASS\n') and the like: the keyword and the section it opens
KeywordLine(word, sec) == Item(sec, [shape |-> "keyword", word |-> word])

\* lines 778-854, the same statements for every style
WrittenLines(style, forward) ==
    <<TitleLine>>
    \o <<KeywordLine("MASS", "MASS")>> \o WrittenMass(atom_types) \o <<BlankLine>>
    \o <<KeywordLine("BOND", "BOND")>>
    \o WrittenBonds(bond_types, bond_objs, forward) \o <<BlankLine>>
    \o <<KeywordLine("ANGLE", "ANGLE")>>
    \o WrittenAngles(angle_types, angle_objs, forward) \o <<BlankLine>>
    \o <<KeywordLine("DIHE", "DIHEDRAL")>>
    \o WrittenDihedrals(dihedral_types, dihedral_objs, forward) \o <<BlankLine>>
    \o <<KeywordLine("IMPROPER", "IMPROPER")>>
    \o WrittenImpropers(improper_periodic_types) \o <<BlankLine>>
    \o <<KeywordLine("NONB", "NONBOND")>> \o WrittenNonbonded(atom_types) \o <<BlankLine>>
    \o (IF DOMAIN nbfix_types # {}
          THEN <<KeywordLine("LJEDIT", "NBFIX")>> \o WrittenNbfix(nbfix_types)
          ELSE <<>>)

\* the lines that reached dest before write raised: up to the keyword of the
\* section whose loop raised (the data lines of that section printed before
\* the raising one are left out)
WrittenBefore(e, forward) ==
    LET all == <<TitleLine>>
               \o <<KeywordLine("MASS", "MASS")>> \o WrittenMass(atom_types) \o <<BlankLine>>
               \o <<KeywordLine("BOND", "BOND")>>
               \o WrittenBonds(bond_types, bond_objs, forward) \o <<BlankLine>>
               \o <<KeywordLine("ANGLE", "ANGLE")>>
               \o WrittenAngles(angle_types, angle_objs, forward) \o <<BlankLine>>
               \o <<KeywordLine("DIHE", "DIHEDRAL")>>
               \o WrittenDihedrals(dihedral_types, dihedral_objs, forward) \o <<BlankLine>>
               \o <<KeywordLine("IMPROPER", "IMPROPER")>>
    IN CASE e = "ValueError"     -> <<>>
         [] e = "AssertionError" -> all
         [] OTHER -> all \o <<BlankLine>> \o <<KeywordLine("NONB", "NONBOND")>>

\* write(dest, style=style) on the database as it is
WriteStyle(style, forward) ==
    /\ layout = "none"
    /\ outfile = <<>>
    /\ LET e == IF StyleError(style) # "none" THEN StyleError(style) ELSE WriteError
       IN /\ exc' = e
          /\ outfile' = <<[style |-> style,
                           lines |-> IF e = "none" THEN WrittenLines(style, forward)
                                     ELSE WrittenBefore(e, forward)]>>
    /\ UNCHANGED <<dbVars, parseVars, titles, warnings, nlines, hist, last, leapVars,
                   text, original, base, handles, is_fmt, applied, resolved, c4out, reader, leap>>

\* both orientations of a key, and a key that is its own reverse
StyleBondLines ==
    BondLines \cup { [shape |-> "ok", key |-> <<"N", "N">>, k |-> 320, eq |-> 13] }

StyleAngleLines ==
    AngleLines \cup { [shape |-> "ok", key |-> <<"H", "N", "H">>, k |-> 35, eq |-> 120] }

StyleDihedralLines ==
    RoundTripDihedralLines
    \cup { [shape |-> "full", key |-> <<"CT", "N", "N", "CT">>, div |-> FullFields.div,
            k |-> FullFields.k, phi |-> FullFields.phi, per |-> 2,
            scee |-> FullFields.scee, scnb |-> FullFields.scnb] }

\* nothing was written yet
Unwritten == outfile = <<>>

NextStyle ==
    \/ Unwritten /\ LoadParameters("frcmod")
    \/ Unwritten /\ \E s \in FrcmodSections : Header(s)
    \/ Unwritten /\ EndOfFrcmod
    \/ Unwritten /\ MassLine(FrcmodMassLines, MaxLines)
    \/ Unwritten /\ BondLine(StyleBondLines, MaxLines)
    \/ Unwritten /\ AngleLine(StyleAngleLines, MaxLines)
    \/ Unwritten /\ DihedralLine(StyleDihedralLines, MaxLines)
    \/ Unwritten /\ ImproperLine(FrcmodImproperLines, MaxLines)
    \/ Unwritten /\ NonbondLine(FrcmodNonbondLines, MaxLines)
    \/ Unwritten /\ NbfixLine(FrcmodNbfixLines, MaxLines)
    \/ \E style \in Styles, forward \in BOOLEAN : WriteStyle(style, forward)

SpecStyle == Init /\ [][NextStyle]_vars

IsKeyword(it) == it.line.shape = "keyword"

\* C21: write with style='parm' prints no section keyword and its lines differ
\* from those of style='frcmod' on the same database; a style other than
\* 'frcmod' and 'parm' raises ValueError
C21_StyleSelectsLayout ==
    [][\A style \in Styles, forward \in BOOLEAN :
          WriteStyle(style, forward) =>
              /\ style \notin {"frcmod", "parm"} => exc' = "ValueError"
              /\ (style = "parm" /\ exc' = "none") =>
                    /\ \A i \in 1..Len(outfile'[1].lines) : ~IsKeyword(outfile'[1].lines[i])
                    /\ outfile'[1].lines # WrittenLines("frcmod", forward)
    ]_vars

\* write(dest, style='parm') returned on a database with a mass and a bond
C21_Witness ==
    /\ outfile # <<>> /\ outfile[1].style = "parm"
    /\ exc = "none"
    /\ DOMAIN atom_types # {} /\ DOMAIN bond_types # {}
    /\ Len(outfile[1].lines) > 0

(***************************************************************************)
(* SpecShared: bonds, angles and dihedrals read from frcmod files, then    *)
(* written.                                                                *)
(***************************************************************************)
SharedSections == {"BOND", "ANGLE", "DIHEDRAL"}

NextShared ==
    \/ Unwritten /\ LoadParameters("frcmod")
    \/ Unwritten /\ \E s \in SharedSections : Header(s)
    \/ Unwritten /\ EndOfFrcmod
    \/ Unwritten /\ BondLine(StyleBondLines, MaxLines)
    \/ Unwritten /\ AngleLine(StyleAngleLines, MaxLines)
    \/ Unwritten /\ DihedralLine(StyleDihedralLines, MaxLines)
    \/ \E forward \in BOOLEAN : WriteStyle("frcmod", forward)

SpecShared == Init /\ [][NextShared]_vars

\* the data lines of a section of the written file
DataLines(sec) ==
    SelectSeq(outfile[1].lines,
              LAMBDA it : it.section = sec /\ it.line.shape \in {"ok", "full", "cont"})

\* the distinct records of a dictionary
Records(types) == {types[k] : k \in DOMAIN types}

\* the keys a record is stored under
KeysTo(types, h) == {k \in DOMAIN types : types[k] = h}

\* the places of the lines printed for record h
PlacesOf(sec, types, h) ==
    {i \in 1..Len(DataLines(sec)) : DataLines(sec)[i].line.key \in KeysTo(types, h)}

\* C22: write prints one BOND line per distinct bond record, one ANGLE line
\* per distinct angle record and, per distinct dihedral record, one DIHE line
\* for each of its terms, although a record is stored under its key and the
\* reverse of its key
C22_OneLinePerRecord ==
    (outfile # <<>> /\ exc = "none") =>
        /\ Len(DataLines("BOND")) = Cardinality(Records(bond_types))
        /\ \A h \in Records(bond_types) :
              \E i \in 1..Len(DataLines("BOND")) :
                 /\ PlacesOf("BOND", bond_types, h) = {i}
                 /\ DataLines("BOND")[i].line.k = bond_objs[h].k
                 /\ DataLines("BOND")[i].line.eq = bond_objs[h].req
        /\ Len(DataLines("ANGLE")) = Cardinality(Records(angle_types))
        /\ \A h \in Records(angle_types) :
              \E i \in 1..Len(DataLines("ANGLE")) :
                 /\ PlacesOf("ANGLE", angle_types, h) = {i}
                 /\ DataLines("ANGLE")[i].line.k = angle_objs[h].k
                 /\ DataLines("ANGLE")[i].line.eq = angle_objs[h].theteq
        /\ \A h \in Records(dihedral_types) :
              /\ Cardinality(PlacesOf("DIHEDRAL", dihedral_types, h)) = Len(dihedral_objs[h])
              /\ \A i, j \in PlacesOf("DIHEDRAL", dihedral_types, h) :
                    DataLines("DIHEDRAL")[i].line.key = DataLines("DIHEDRAL")[j].line.key
        /\ Len(DataLines("DIHEDRAL")) = SumLen(dihedral_objs, Records(dihedral_types))

\* written: two bond records under three keys, and a dihedral record of two
\* terms under two keys
C22_Witness ==
    /\ outfile # <<>> /\ exc = "none"
    /\ Cardinality(DOMAIN bond_types) = 3 /\ Cardinality(Records(bond_types)) = 2
    /\ Len(DataLines("BOND")) = 2
    /\ Cardinality(DOMAIN dihedral_types) = 2
    /\ Len(DataLines("DIHEDRAL")) = 2

(***************************************************************************)
(* SpecTerms: dihedral lines that differ in divisor, force constant,       *)
(* phase, sign of the periodicity and in the SCEE= and SCNB= they carry.   *)
(***************************************************************************)
TermLine(shape, k, div, fc, phi, per, scee, scnb) ==
    [shape |-> shape, key |-> k, div |-> div, k |-> fc, phi |-> phi, per |-> per,
     scee |-> scee, scnb |-> scnb]

TermLines ==
    { TermLine("full", TorsionK, 2, 4, 180, -1, <<>>, <<10>>),
      TermLine("full", TorsionK, 1, 3, 0, 2, <<15>>, <<>>),
      TermLine("full", Reversed(TorsionK), 2, 6, 0, -3, <<>>, <<>>),
      TermLine("full", TorsionJ, 3, 6, 180, 0, <<15>>, <<10>>),
      TermLine("cont", None, 1, 3, 0, 3, <<15>>, <<>>),
      TermLine("cont", None, 2, 4, 180, -2, <<>>, <<10>>),
      TermLine("cont", None, 2, 2, 0, 4, <<>>, <<>>) }

NextTerms ==
    \/ LoadParameters("frcmod")
    \/ Header("DIHEDRAL")
    \/ EndOfFrcmod
    \/ DihedralLine(TermLines, MaxLines)

SpecTerms == Init /\ [][NextTerms]_vars

\* the term a line declares, field by field
DeclaredBy(typ, line) ==
    /\ typ.phi_k * line.div = line.k
    /\ typ.per >= 0 /\ typ.per \in {line.per, -line.per}
    /\ typ.phase = line.phi
    /\ typ.scee = (IF line.scee = <<>> THEN 12 ELSE line.scee[1])
    /\ typ.scnb = (IF line.scnb = <<>> THEN 20 ELSE line.scnb[1])

\* the terms stored before the step are all still there, or were replaced with
\* their record
EarlierTermsKept ==
    \A k \in DOMAIN dihedral_types :
        LET old == dihedral_objs[dihedral_types[k]]
            new == dihedral_objs'[dihedral_types'[k]]
        IN \/ dihedral_types'[k] # dihedral_types[k]
           \/ new = old
           \/ Len(new) = Len(old) + 1 /\ SubSeq(new, 1, Len(old)) = old

\* C23: the term a dihedral line stores, full or continuation-only, has force
\* constant k/divisor, the absolute value of the declared periodicity, the
\* declared phase, and the SCEE and SCNB of its own line or 1.2 and 2.0; it is
\* the last term of the record of the line's key, and no term stored earlier
\* changes
C23_TermFields ==
    [][\A line \in TermLines :
          (InSection("DIHEDRAL", MaxLines) /\ ProcessDihedralLine(line) /\ exc' = "none") =>
              LET k == IF line.shape = "full" THEN line.key ELSE key
                  terms == dihedral_objs'[dihedral_types'[k]]
              IN /\ DeclaredBy(terms[Len(terms)], line)
                 /\ dihedral_types'[Reversed(k)] = dihedral_types'[k]
                 /\ EarlierTermsKept
    ]_vars

\* a continuation-only line with a negative periodicity and no SCEE= added
\* the second term (k/div = 2, per 2, phase 180, SCEE 1.2, SCNB 1.0)
C23_Witness ==
    /\ exc = "none" /\ nlines = 2
    /\ TorsionK \in DOMAIN dihedral_types
    /\ LET terms == dihedral_objs[dihedral_types[TorsionK]]
       IN /\ Len(terms) = 2
          /\ terms[2] = DihedralType(2, 2, 180, 12, 10)

(***************************************************************************)
(* id_format (lines 87-193).  A file is the sequence of its lines, a line  *)
(* is [indent, words]: whether it starts with white space, and its tokens; *)
(* a token is the sequence of its characters.  A blank line has no words.  *)
(* The outcome is "True", "False" or the name of the exception raised.     *)
(***************************************************************************)
Line(indent, words) == [indent |-> indent, words |-> words]

Digits == <<"0", "1", "2", "3", "4", "5", "6", "7", "8", "9">>

Lowers == <<"a", "b", "c", "d", "e", "f", "g", "h", "i", "j", "k", "l", "m",
            "n", "o", "p", "q", "r", "s", "t", "u", "v", "w", "x", "y", "z">>

Uppers == <<"A", "B", "C", "D", "E", "F", "G", "H", "I", "J", "K", "L", "M",
            "N", "O", "P", "Q", "R", "S", "T", "U", "V", "W", "X", "Y", "Z">>

IsDigit(c) == c \in Range(Digits)

DigitVal(c) == (CHOOSE i \in 1..10 : Digits[i] = c) - 1

\* str.isalpha of one character
IsAlpha(c) == c \in Range(Lowers) \cup Range(Uppers)

\* str.upper and str.lower of one character
UpperChar(c) ==
    IF c \in Range(Lowers) THEN Uppers[CHOOSE i \in 1..26 : Lowers[i] = c] ELSE c

LowerChar(c) ==
    IF c \in Range(Uppers) THEN Lowers[CHOOSE i \in 1..26 : Uppers[i] = c] ELSE c

RECURSIVE NatOf(_)
NatOf(ds) ==
    IF ds = <<>> THEN 0
    ELSE 10 * NatOf(SubSeq(ds, 1, Len(ds) - 1)) + DigitVal(ds[Len(ds)])

\* float(token), for tokens without exponent, 'inf', 'nan' or '_': <<>> for
\* ValueError, <<the value in thousandths>> otherwise
FloatOf(tok) ==
    LET signed == tok # <<>> /\ tok[1] \in {"+", "-"}
        body   == IF signed THEN Tail(tok) ELSE tok
        dots   == {i \in 1..Len(body) : body[i] = "."}
        dot    == IF dots = {} THEN Len(body) + 1 ELSE CHOOSE i \in dots : TRUE
        int    == SubSeq(body, 1, dot - 1)
        frac   == SubSeq(body, dot + 1, Len(body))
        frac3  == SubSeq(frac \o <<"0", "0", "0">>, 1, 3)
        value  == 1000 * NatOf(int) + NatOf(frac3)
    IN IF /\ Cardinality(dots) <= 1
          /\ \A i \in 1..Len(body) : i \in dots \/ IsDigit(body[i])
          /\ Len(int) + Len(frac) > 0
         THEN <<IF signed /\ tok[1] = "-" THEN -value ELSE value>>
         ELSE <<>>

\* parmed.periodic_table.Mass, in thousandths of amu, for the elements whose
\* symbol the type codes of the model can spell
Mass ==
    [k \in {<<"H">>, <<"C">>, <<"N">>, <<"O">>, <<"C", "a">>, <<"C", "l">>,
            <<"B", "r">>, <<"N", "a">>} |->
        CASE k = <<"H">> -> 1008
          [] k = <<"C">> -> 12011
          [] k = <<"N">> -> 14007
          [] k = <<"O">> -> 15999
          [] k = <<"C", "a">> -> 40078
          [] k = <<"C", "l">> -> 35453
          [] k = <<"B", "r">> -> 79904
          [] k = <<"N", "a">> -> 22990]

SectionKeywords ==
    { <<"M", "A", "S", "S">>, <<"B", "O", "N", "D">>, <<"A", "N", "G", "L", "E">>,
      <<"A", "N", "G", "L">>, <<"D", "I", "H", "E">>, <<"D", "I", "H", "E", "D">>,
      <<"D", "I", "H", "E", "D", "R", "A", "L">>, <<"I", "M", "P", "R">>,
      <<"I", "M", "P", "R", "O", "P">>, <<"I", "M", "P", "R", "O", "P", "E", "R">>,
      <<"N", "O", "N", "B">>, <<"N", "O", "N", "B", "O", "N">>,
      <<"N", "O", "N", "B", "O", "N", "D">>,
      <<"N", "O", "N", "B", "O", "N", "D", "E", "D">> }

\* line.rstrip() in ('MASS', 'BOND', ...): nothing before the keyword
IsKeywordLine(line) ==
    ~line.indent /\ Len(line.words) = 1 /\ line.words[1] \in SectionKeywords

\* lines 107-108: the first line of a file that is not blank, <<>> at its end
RECURSIVE FirstNonBlank(_)
FirstNonBlank(lines) ==
    IF lines = <<>> THEN <<>>
    ELSE IF Head(lines).words = <<>> THEN FirstNonBlank(Tail(lines))
    ELSE <<Head(lines)>>

\* abs(Mass[key] - float(words[1])) > 1, with the ValueError of float
OffBy(k, tok) ==
    IF FloatOf(tok) = <<>> THEN "ValueError"
    ELSE IF Abs(Mass[k] - FloatOf(tok)[1]) > 1000 THEN "far" ELSE "near"

\* lines 149-182: "pass" when the check returns nothing
MassCheck(words) ==
    LET w == words[1]
        m == words[2]
    IN IF Len(w) = 2
         THEN IF IsAlpha(w[1])
                THEN IF IsAlpha(w[2])
                       THEN LET k == <<UpperChar(w[1]), LowerChar(w[2])>> IN
                            IF k \in DOMAIN Mass /\ OffBy(k, m) # "near"
                              THEN IF OffBy(k, m) = "ValueError" THEN "ValueError"
                                   ELSE IF k[1] = "C" /\ OffBy(<<"C">>, m) = "far" THEN "False"
                                   ELSE IF k[1] # "C" THEN "False"
                                   ELSE "pass"
                            ELSE IF k \notin DOMAIN Mass
                              THEN IF <<k[1]>> \in DOMAIN Mass /\ OffBy(<<k[1]>>, m) = "ValueError"
                                     THEN "ValueError"
                                     ELSE "False"
                            ELSE "pass"
                       ELSE LET k == <<UpperChar(w[1])>> IN
                            IF k \in DOMAIN Mass /\ OffBy(k, m) # "near"
                              THEN IF OffBy(k, m) = "ValueError" THEN "ValueError" ELSE "False"
                            ELSE IF k \notin DOMAIN Mass THEN "False"
                            ELSE "pass"
                ELSE LET k == <<UpperChar(w[2])>> IN
                     IF k \in DOMAIN Mass
                       THEN IF OffBy(k, m) = "near" THEN "pass"
                            ELSE IF OffBy(k, m) = "far" THEN "False" ELSE "ValueError"
                       ELSE "False"
         ELSE LET k == <<UpperChar(w[1])>> IN
              IF k \in DOMAIN Mass
                THEN IF OffBy(k, m) = "near" THEN "pass"
                     ELSE IF OffBy(k, m) = "far" THEN "False" ELSE "ValueError"
                ELSE "False"

MassCheckRunsIfAbsent(words) == Len(words) < 3

\* lines 136-138: try: float(words[2]) except (IndexError, ValueError): the
\* mass check runs when there is no third token or it is no float
MassCheckRuns(words) == Len(words) < 3 \/ FloatOf(words[3]) = <<>>

SecondTokenAny(words) == TRUE

\* lines 131-134: try: float(words[1]) except ValueError: return False
SecondTokenIsFloat(words) == FloatOf(words[2]) # <<>>

\* lines 119-192: the second line as the mass record of a parm.dat file
MassRecord(words) ==
    IF Len(words) < 2 THEN "False"
    ELSE IF Len(words[1]) > 2 THEN "False"
    ELSE IF FloatOf(words[1]) # <<>> THEN "False"
    ELSE IF ~SecondTokenIsFloat(words) THEN "False"
    ELSE IF MassCheckRuns(words) /\ MassCheck(words) # "pass"
      THEN MassCheck(words)
    ELSE IF Len(words) > 3
      THEN IF FloatOf(words[4]) # <<>> THEN "False" ELSE "True"
    ELSE "True"

\* lines 103-118: the title is read and dropped
IdFormat(file) ==
    LET rest == IF file = <<>> THEN <<>> ELSE Tail(file)
        line == IF rest = <<>> THEN <<>> ELSE <<Head(rest)>>
    IN IF line = <<>> \/ line[1].words = <<>>
         THEN IF FirstNonBlank(rest) = <<>> THEN "False"
              ELSE IF IsKeywordLine(FirstNonBlank(rest)[1]) THEN "True" ELSE "False"
         ELSE IF IsKeywordLine(line[1]) THEN "True"
         ELSE MassRecord(line[1].words)

\* AmberParameterSet.id_format(filename)
IdFormatCall(file) ==
    /\ layout = "none"
    /\ is_fmt = <<>>
    /\ is_fmt' = <<[file |-> file, result |-> IdFormat(file)]>>
    /\ UNCHANGED <<dbVars, parseVars, titles, warnings, exc, nlines, hist, last, leapVars,
                   text, original, base, handles, outfile, applied, resolved, c4out, reader, leap>>

(***************************************************************************)
(* SpecIdFormat: id_format on files of up to three lines.                  *)
(***************************************************************************)
TypeTokens ==
    { <<"C">>, <<"C", "A">>, <<"C", "T">>, <<"C", "X">>, <<"C", "L">>, <<"c", "a">>,
      <<"H">>, <<"H", "C">>, <<"N">>, <<"N", "A">>, <<"B", "r">>,
      <<"2", "C">>, <<"C", "*">>, <<"*", "*">>, <<"*">>, <<"1", "2">>,
      <<"A", "B", "C">> }

MassTokens ==
    { <<"1", "2", ".", "0", "1">>, <<"1", "2", ".", "0", "1", "0">>,
      <<"1", ".", "0", "0", "8">>, <<"1", "4", ".", "0", "1">>,
      <<"4", "0", ".", "0", "8">>, <<"1", "3", ".", "5">>, <<"a", "b", "c">> }

ThirdTokens == { <<"0", ".", "6", "1", "6">>, <<"s", "p", "2">> }

FourthTokens == { <<"!">>, <<"3", ".", "0">> }

MassRecordLines ==
    { Line(FALSE, <<t>>) : t \in TypeTokens }
    \cup { Line(FALSE, <<t, m>>) : t \in TypeTokens, m \in MassTokens }
    \cup { Line(FALSE, <<t, m, p>>) : t \in TypeTokens, m \in MassTokens, p \in ThirdTokens }
    \cup { Line(FALSE, <<t, m, p, c>>) :
              t \in {<<"C">>, <<"C", "T">>, <<"N">>}, m \in MassTokens, p \in ThirdTokens,
              c \in FourthTokens }

KeywordLines ==
    { Line(i, <<k>>) : i \in BOOLEAN,
                       k \in {<<"M", "A", "S", "S">>, <<"D", "I", "H", "E">>,
                              <<"N", "O", "N", "B", "O", "N">>, <<"M", "A", "S">>} }

BlankLineRead == Line(FALSE, <<>>)

TitleRead == Line(FALSE, <<<<"t">>>>)

SniffedFiles ==
    { <<>>, <<TitleRead>>, <<TitleRead, BlankLineRead>>,
      <<TitleRead, BlankLineRead, BlankLineRead>> }
    \cup { <<TitleRead, l>> : l \in MassRecordLines \cup KeywordLines }
    \cup { <<TitleRead, BlankLineRead, l>> :
              l \in KeywordLines \cup { Line(FALSE, <<<<"C">>, <<"1", "2", ".", "0", "1">>>>) } }

NextIdFormat == \E file \in SniffedFiles : IdFormatCall(file)

SpecIdFormat == Init /\ [][NextIdFormat]_vars

\* the second line of the file id_format was called on
SecondLine == is_fmt[1].file[2]

\* the type code of the second line has no letter
NoLetterCode ==
    /\ Len(is_fmt[1].file) = 2
    /\ SecondLine.words # <<>>
    /\ \A i \in 1..Len(SecondLine.words[1]) : ~IsAlpha(SecondLine.words[1][i])

\* the outcome for the files without a record on the second line: an empty
\* file, a file of one line, other lines all blank, one token that is no
\* section keyword
NoRecordIsFalse ==
    /\ Len(is_fmt[1].file) <= 1 => is_fmt[1].result = "False"
    /\ (\A i \in 2..Len(is_fmt[1].file) : is_fmt[1].file[i].words = <<>>) =>
          is_fmt[1].result = "False"
    /\ (/\ Len(is_fmt[1].file) = 2
        /\ Len(SecondLine.words) = 1
        /\ ~IsKeywordLine(SecondLine)) => is_fmt[1].result = "False"

\* C24: id_format ends with True or False, never with an exception; it
\* returns False for an empty file, a file of one line, a file whose other
\* lines are all blank and a second line of one token that is no section
\* keyword; a type code with characters that are no letters does not make it
\* raise: without a letter it gives False when the mass check runs, and a
\* digit before a letter is accepted with the mass of the letter's element
C24_BooleanNeverRaises ==
    is_fmt # <<>> =>
        /\ is_fmt[1].result \in {"True", "False"}
        /\ NoRecordIsFalse
        /\ (NoLetterCode /\ MassCheckRuns(SecondLine.words)) => is_fmt[1].result = "False"
        /\ (/\ Len(is_fmt[1].file) = 2
            /\ SecondLine.words = <<<<"2", "C">>, <<"1", "2", ".", "0", "1">>>>) =>
              is_fmt[1].result = "True"

\* id_format was called on a file whose second line is '** abc' and returned
\* False
C24_Witness ==
    /\ is_fmt # <<>>
    /\ Len(is_fmt[1].file) = 2
    /\ SecondLine.words = <<<<"*", "*">>, <<"a", "b", "c">>>>
    /\ is_fmt[1].result = "False"

\* the second line is read as a mass record: it is not blank, it is no
\* section keyword, and it has a type code of one or two characters that is
\* no number, and a second token
ReadAsMassRecord ==
    /\ is_fmt # <<>>
    /\ Len(is_fmt[1].file) = 2
    /\ ~IsKeywordLine(SecondLine)
    /\ Len(SecondLine.words) >= 2
    /\ Len(SecondLine.words[1]) <= 2
    /\ FloatOf(SecondLine.words[1]) = <<>>

\* the claim as stated: a mass record whose second token is no float gives
\* False, and so does one whose third token exists and is no float
C25_Original ==
    ReadAsMassRecord =>
        /\ FloatOf(SecondLine.words[2]) = <<>> => is_fmt[1].result = "False"
        /\ (Len(SecondLine.words) >= 3 /\ FloatOf(SecondLine.words[3]) = <<>>) =>
              is_fmt[1].result = "False"

\* C25: a mass record whose second token is no float gives False; a third
\* token that is no float is taken as if it were absent (the mass check
\* decides, as for the record of the first two tokens); with a third token
\* that is a float the mass check is not used, and the record of three tokens
\* gives True whatever its mass
C25_MassRecordTokens ==
    ReadAsMassRecord =>
        /\ FloatOf(SecondLine.words[2]) = <<>> => is_fmt[1].result = "False"
        /\ (Len(SecondLine.words) = 3 /\ FloatOf(SecondLine.words[3]) = <<>>) =>
              is_fmt[1].result =
                  IdFormat(<<TitleRead, Line(FALSE, SubSeq(SecondLine.words, 1, 2))>>)
        /\ (/\ Len(SecondLine.words) = 3
            /\ FloatOf(SecondLine.words[2]) # <<>>
            /\ FloatOf(SecondLine.words[3]) # <<>>) => is_fmt[1].result = "True"

\* 'C 12.01 sp2' was accepted
C25_Witness ==
    /\ ReadAsMassRecord
    /\ SecondLine.words = <<<<"C">>, <<"1", "2", ".", "0", "1">>, <<"s", "p", "2">>>>
    /\ is_fmt[1].result = "True"

\* the second line holds a type code of one or two letters that starts with C
\* and a mass within 1 amu of carbon's, and nothing else
CarbonRecord ==
    /\ ReadAsMassRecord
    /\ Len(SecondLine.words) = 2
    /\ SecondLine.words[1][1] = "C"
    /\ \A i \in 1..Len(SecondLine.words[1]) : IsAlpha(SecondLine.words[1][i])
    /\ FloatOf(SecondLine.words[2]) # <<>>
    /\ Abs(Mass[<<"C">>] - FloatOf(SecondLine.words[2])[1]) <= 1000

\* C26: for a second line of a type code of one or two letters that starts
\* with C and a mass within 1 amu of carbon's, id_format returns True whatever
\* the second letter is
C26_CarbonFirst == CarbonRecord => is_fmt[1].result = "True"

\* 'CA 12.010' was accepted
C26_Witness ==
    /\ CarbonRecord
    /\ SecondLine.words = <<<<"C", "A">>, <<"1", "2", ".", "0", "1", "0">>>>
    /\ is_fmt[1].result = "True"

(***************************************************************************)
(* from_leaprc, the addAtomTypes block (lines 336-374).  An entry of the   *)
(* block is { "name" "symbol" "hybridization" }; the loop of line 369 goes *)
(* over the entries that _atomtypere matches, after every loadamberparams  *)
(* directive was processed.                                                *)
(***************************************************************************)
\* parmed.periodic_table.AtomicNum, for the symbols of the model
AtomicNum == ("H" :> 1) @@ ("C" :> 6) @@ ("N" :> 7) @@ ("O" :> 8)

Triple(name, symb, hyb) == [name |-> name, symb |-> symb, hyb |-> hyb]

\* _atomtypere (line 36): each of the three quoted words is one character
\* at least
MatchesAtomTypeRe(entry) == entry.name # "" /\ entry.symb # "" /\ entry.hyb # ""

AtomicNumberSetOrCreated(at, name, number) ==
    IF name \in DOMAIN at THEN [at EXCEPT ![name].atomic_number = number]
    ELSE Put(at, name, AtomType(Cardinality(DOMAIN at) + 1, 0, number))

\* lines 372-373
AtomicNumberSet(at, name, number) ==
    IF name \in DOMAIN at THEN [at EXCEPT ![name].atomic_number = number] ELSE at

\* lines 369-373: one turn of the loop
AddAtomType(entry) ==
    /\ layout = "none"
    /\ exc = "none"
    /\ Len(applied) < MaxTriples
    /\ applied' = Append(applied, entry)
    /\ IF ~MatchesAtomTypeRe(entry)
         THEN UNCHANGED <<atom_types, exc>>
       ELSE IF entry.symb \notin DOMAIN AtomicNum
         THEN /\ exc' = "ParameterError"
              /\ UNCHANGED atom_types
       ELSE /\ atom_types' = AtomicNumberSet(atom_types, entry.name, AtomicNum[entry.symb])
            /\ UNCHANGED exc
    /\ UNCHANGED <<bond_types, bond_objs, angle_types, angle_objs, dihedral_types,
                   dihedral_objs, improper_periodic_types, nbfix_types, parseVars,
                   titles, warnings, nlines, hist, last, leapVars, text, original, base,
                   handles, outfile, is_fmt, resolved, c4out, reader, leap>>

(***************************************************************************)
(* SpecAddTypes: the atom types of the parameter files that the leaprc     *)
(* file loads, then its addAtomTypes block.                                *)
(***************************************************************************)
AddTypesMassLines ==
    { [shape |-> "ok", type |-> "N", mass |-> 14],
      [shape |-> "ok", type |-> "O", mass |-> 16],
      [shape |-> "ok", type |-> "CT", mass |-> 12] }

BlockEntries ==
    { Triple(n, e, "sp2") : n \in {"N", "NA"}, e \in {"C", "O", "Xx", "c", ""} }

\* the block is not reached yet
BeforeBlock == applied = <<>>

NextAddTypes ==
    \/ BeforeBlock /\ LoadParameters("frcmod")
    \/ BeforeBlock /\ Header("MASS")
    \/ BeforeBlock /\ EndOfFrcmod
    \/ BeforeBlock /\ MassLine(AddTypesMassLines, MaxLines)
    \/ \E entry \in BlockEntries : AddAtomType(entry)

SpecAddTypes == Init /\ [][NextAddTypes]_vars

\* C27: a triple whose symbol is no element ends from_leaprc with
\* ParameterError and changes nothing (what earlier triples did stays); a
\* triple with an element and the name of an existing atom type sets the
\* atomic number of that type and nothing else; a triple with an element and
\* another name creates and changes nothing
C27_AddAtomTypes ==
    [][\A entry \in BlockEntries :
          (MatchesAtomTypeRe(entry) /\ AddAtomType(entry)) =>
              IF entry.symb \notin {"H", "C", "N", "O"}
                THEN exc' = "ParameterError" /\ dbVars' = dbVars
              ELSE /\ exc' = "none"
                   /\ DOMAIN atom_types' = DOMAIN atom_types
                   /\ \A t \in DOMAIN atom_types :
                         /\ atom_types'[t].mass = atom_types[t].mass
                         /\ atom_types'[t].rmin = atom_types[t].rmin
                         /\ atom_types'[t].epsilon = atom_types[t].epsilon
                         /\ atom_types'[t].atomic_number =
                               IF t = entry.name
                                 THEN (CASE entry.symb = "H" -> 1 [] entry.symb = "C" -> 6
                                         [] entry.symb = "N" -> 7 [] entry.symb = "O" -> 8)
                                 ELSE atom_types[t].atomic_number
    ]_vars

\* N, read with mass 14, was made a carbon by the first triple; the second
\* triple names no element and ended the call
C27_Witness ==
    /\ exc = "ParameterError"
    /\ Len(applied) = 2
    /\ applied[1] = Triple("N", "C", "sp2")
    /\ applied[2].symb = "Xx"
    /\ "N" \in DOMAIN atom_types /\ atom_types["N"].atomic_number = 6
    /\ atom_types["N"].mass = 14

(***************************************************************************)
(* _find_amber_file (lines 43-62).  A directory is named by its place in   *)
(* the Amber tree; `present` is the set of directories that hold the file. *)
(***************************************************************************)
Cwd == "cwd"

LeapLib == "dat/leap/lib"

LeapParm == "dat/leap/parm"

OldFF == "dat/leap/lib/oldff"

Directories == {Cwd, LeapLib, LeapParm, OldFF}

\* lines 56-58
SearchPaths(search_oldff) ==
    IF search_oldff THEN <<Cwd, LeapLib, LeapParm, OldFF>> ELSE <<Cwd, LeapLib, LeapParm>>

FindAmberFileLast(present, search_oldff) ==
    LET paths == SearchPaths(search_oldff)
        hits  == {i \in 1..Len(paths) : paths[i] \in present}
    IN IF hits = {} THEN <<>> ELSE <<paths[CHOOSE i \in hits : \A j \in hits : j <= i]>>

\* lines 59-62: <<the directory of the path returned>>, <<>> for
\* FileNotFoundError
FindAmberFile(present, search_oldff) ==
    LET paths == SearchPaths(search_oldff)
        hits  == {i \in 1..Len(paths) : paths[i] \in present}
    IN IF hits = {} THEN <<>> ELSE <<paths[CHOOSE i \in hits : \A j \in hits : i <= j]>>

\* the copy of the file in each directory: one bond line, its force constant
\* telling the copies apart
CopyIn(dir) ==
    BondLineOf("CT", "N",
               CASE dir = Cwd -> 300 [] dir = LeapLib -> 310 [] dir = LeapParm -> 320
                 [] OTHER -> 330,
               15)

\* line 326: params.load_parameters(_find_amber_file(fname, search_oldff))
LoadFound(present, search_oldff) ==
    /\ layout = "none"
    /\ exc = "none"
    /\ Len(resolved) < MaxFinds
    /\ LET path == FindAmberFile(present, search_oldff) IN
       /\ resolved' = Append(resolved, [present |-> present, search_oldff |-> search_oldff,
                                        path |-> path])
       /\ IF path = <<>>
            THEN /\ exc' = "FileNotFoundError"
                 /\ UNCHANGED <<bond_types, bond_objs, titles, nlines>>
            ELSE LET st == BondLineStored(bond_types, bond_objs, CopyIn(path[1]))
                 IN /\ bond_types' = st.types
                    /\ bond_objs' = st.objs
                    /\ titles' = Append(titles, path[1])
                    /\ nlines' = nlines + 1
                    /\ UNCHANGED exc
    /\ UNCHANGED <<atom_types, angle_types, angle_objs, dihedral_types, dihedral_objs,
                   improper_periodic_types, nbfix_types, parseVars, warnings, hist, last,
                   leapVars, text, original, base, handles, outfile, is_fmt, applied,
                   c4out, reader, leap>>

NextFind == \E present \in SUBSET Directories, search_oldff \in BOOLEAN :
               LoadFound(present, search_oldff)

SpecFind == Init /\ [][NextFind]_vars

\* C28: the path returned is in the first of the current directory, leap/lib,
\* leap/parm and, with search_oldff only, lib/oldff that holds the file, and it
\* is the file loaded; a file that none of them holds raises
\* FileNotFoundError and loads nothing
C28_FirstMatchWins ==
    [][\A present \in SUBSET Directories, search_oldff \in BOOLEAN :
          LoadFound(present, search_oldff) =>
              LET searched == {Cwd, LeapLib, LeapParm}
                              \cup (IF search_oldff THEN {OldFF} ELSE {})
                  first == IF Cwd \in present THEN Cwd
                           ELSE IF LeapLib \in present THEN LeapLib
                           ELSE IF LeapParm \in present THEN LeapParm
                           ELSE OldFF
                  r == resolved'[Len(resolved')]
              IN IF present \cap searched = {}
                   THEN /\ r.path = <<>>
                        /\ exc' = "FileNotFoundError"
                        /\ dbVars' = dbVars /\ titles' = titles
                   ELSE /\ r.path = <<first>>
                        /\ exc' = "none"
                        /\ titles' = Append(titles, first)
                        /\ bond_objs'[bond_types'[<<"CT", "N">>]].k = CopyIn(first).k
    ]_vars

\* the file is in leap/lib, leap/parm and lib/oldff: the copy of leap/lib was
\* loaded
C28_Witness ==
    /\ Len(resolved) = 1
    /\ resolved[1].present = {LeapLib, LeapParm, OldFF}
    /\ resolved[1].path = <<LeapLib>>
    /\ titles = <<LeapLib>>
    /\ exc = "none"

\* the file is in lib/oldff only and search_oldff is not set: nothing was
\* loaded
C28_WitnessNotFound ==
    /\ Len(resolved) = 1
    /\ resolved[1].present = {OldFF} /\ ~resolved[1].search_oldff
    /\ exc = "FileNotFoundError"
    /\ titles = <<>>

(***************************************************************************)
(* params1264 (add1264.py, lines 108-206).  The topology is the sequence   *)
(* of its atoms, each [label, ind, element, charge]: AMBER_ATOM_TYPE,      *)
(* ATOM_TYPE_INDEX, the symbol of the atomic number and the charge.  The   *)
(* polarizability file is the dictionary _get_params reads from it, and     *)
(* readable tells whether it does so without ValueError.  Numbers are integers:       *)
(* polarizabilities and C4 values in thousandths.                          *)
(***************************************************************************)
WATER_POL == 1444

\* parm.pointers['NTYPES'] of the topologies of the model
NTypes == 3

\* NONBONDED_PARM_INDEX of a topology without 10-12 terms: entry
\* ntypes*i + j (from 0) is the number, from 1, of the unordered pair (i, j)
NonbondedParmIndex ==
    [n \in 0..(NTypes * NTypes - 1) |->
        LET i  == n \div NTypes
            j  == n % NTypes
            lo == IF i <= j THEN i ELSE j
            hi == IF i <= j THEN j ELSE i
        IN (hi * (hi + 1)) \div 2 + lo + 1]

\* len(parm.parm_data['LENNARD_JONES_ACOEF'])
NAcoef == (NTypes * (NTypes + 1)) \div 2

Atom(label, ind, element, charge) ==
    [label |-> label, ind |-> ind, element |-> element, charge |-> charge]

\* lines 133-140: the ion of each selected type index, from the first
\* selected atom of that index
MetTypDict(atoms, selected) ==
    [t \in {atoms[i].ind : i \in selected} |->
        LET first == CHOOSE i \in selected :
                        atoms[i].ind = t /\ \A k \in selected : atoms[k].ind = t => i <= k
        IN <<atoms[first].element, atoms[first].charge>>]

RECURSIVE SortedInts(_)
\* sorted(...) of a set of integers
SortedInts(set) ==
    IF set = {} THEN <<>>
    ELSE LET m == CHOOSE x \in set : \A y \in set : x <= y
         IN <<m>> \o SortedInts(set \ {m})

RECURSIVE LabelsOf(_, _, _)
\* lines 149-160: typdict[ind], the labels of a type index in the order the
\* atoms bring them
LabelsOf(atoms, ind, seen) ==
    IF atoms = <<>> THEN seen
    ELSE LabelsOf(Tail(atoms), ind,
                  IF Head(atoms).ind = ind /\ Head(atoms).label \notin Range(seen)
                    THEN Append(seen, Head(atoms).label) ELSE seen)

TypDict(atoms) == [j \in 1..NTypes |-> LabelsOf(atoms, j, <<>>)]

PolarizabilityFirstOnly(labels, pollist) ==
    IF labels[1] \notin DOMAIN pollist THEN "LJ12_6_4Error" ELSE "none"

\* lines 174-190: the polarizability of every label is looked up and compared
\* with that of the first
Polarizability(labels, pollist) ==
    IF \E k \in 1..Len(labels) :
          \/ labels[k] \notin DOMAIN pollist
          \/ (labels[1] \in DOMAIN pollist /\ pollist[labels[k]] # pollist[labels[1]])
      THEN "LJ12_6_4Error"
      ELSE "none"

\* lines 192-195
PairIndex(i, jj) ==
    IF jj < i THEN NonbondedParmIndex[NTypes * jj + i]
    ELSE NonbondedParmIndex[NTypes * i + jj]

IncreasedReplaced(old, x) == x

\* line 205: result[idx] += ...
Increased(old, x) == old + x

\* c4 / WATER_POL * pol * tunfactor; the C4 values of the model are multiples
\* of WATER_POL
C4Term(c4, pol, tunfactor) == ((c4 \div WATER_POL) * pol) * tunfactor

RECURSIVE TypeLoop(_, _, _, _, _)
\* lines 169-205, from type j on, for the ion type of index mettypind
TypeLoop(in, mettypind, c4, j, result) ==
    IF j > NTypes THEN [exc |-> "none", result |-> result]
    ELSE LET attypjs == TypDict(in.atoms)[j]
             idx     == PairIndex(mettypind - 1, j - 1)
         IN IF attypjs = <<>> THEN TypeLoop(in, mettypind, c4, j + 1, result)
            ELSE IF Polarizability(attypjs, in.pollist) # "none"
              THEN [exc |-> Polarizability(attypjs, in.pollist), result |-> <<>>]
            ELSE TypeLoop(in, mettypind, c4, j + 1,
                          [result EXCEPT ![idx] =
                              IF attypjs = <<"OW">> THEN c4
                              ELSE Increased(@, C4Term(c4, in.pollist[attypjs[1]],
                                                       in.tunfactor))])

RECURSIVE IonLoop(_, _, _)
\* lines 165-205, over the ion types left
IonLoop(in, mettypinds, result) ==
    IF mettypinds = <<>> THEN [exc |-> "none", result |-> result]
    ELSE LET ion == MetTypDict(in.atoms, in.selected)[Head(mettypinds)]
         IN IF ion \notin DOMAIN in.c4list THEN [exc |-> "KeyError", result |-> <<>>]
            ELSE LET r == TypeLoop(in, Head(mettypinds), in.c4list[ion], 1, result)
                 IN IF r.exc # "none" THEN r ELSE IonLoop(in, Tail(mettypinds), r.result)

\* params1264(parm, mask, c4file, watermodel, polfile, tunfactor)
Params1264(in) ==
    IF ~in.readable THEN [exc |-> "LJ12_6_4Error", result |-> <<>>]
    ELSE IonLoop(in, SortedInts(DOMAIN MetTypDict(in.atoms, in.selected)),
                 [n \in 1..NAcoef |-> 0])

Params1264Call(in) ==
    /\ layout = "none"
    /\ c4out = <<>>
    /\ c4out' = <<[input |-> in, exc |-> Params1264(in).exc,
                   result |-> Params1264(in).result]>>
    /\ UNCHANGED <<dbVars, parseVars, titles, warnings, exc, nlines, hist, last, leapVars,
                   text, original, base, handles, outfile, is_fmt, applied, resolved,
                   reader, leap>>

(***************************************************************************)
(* Spec1264: params1264 on topologies of up to seven atoms and three type  *)
(* indices.                                                                *)
(***************************************************************************)
\* the atoms a topology is made of, in their order; Cu with charge 0 has no
\* C4 value
AtomPool ==
    << Atom("Cu", 1, "Cu", 0), Atom("Zn", 1, "Zn", 2), Atom("Na", 2, "Na", 1),
       Atom("OW", 3, "O", 0), Atom("O", 3, "O", 0), Atom("HO", 2, "H", 0),
       Atom("OW", 3, "O", 0) >>

RECURSIVE Chosen(_, _, _)
Chosen(pool, keep, n) ==
    IF n > Len(pool) THEN <<>>
    ELSE (IF n \in keep THEN <<pool[n]>> ELSE <<>>) \o Chosen(pool, keep, n + 1)

Topologies == { Chosen(AtomPool, keep, 1) : keep \in SUBSET (1..Len(AtomPool)) }

\* DEFAULT_C4_PARAMS of a water model, for the ions of the model
C4List == (<<"Zn", 2>> :> 2 * WATER_POL) @@ (<<"Na", 1>> :> 3 * WATER_POL)

PolComplete ==
    ("Cu" :> 5) @@ ("Zn" :> 5) @@ ("Na" :> 2) @@ ("HO" :> 2) @@ ("OW" :> 3) @@ ("O" :> 3)

PolFiles ==
    { PolComplete,
      [PolComplete EXCEPT !["O"] = 4],
      [l \in DOMAIN PolComplete \ {"HO"} |-> PolComplete[l]] }

Inputs1264 ==
    { [atoms |-> a, selected |-> sel, readable |-> ok, pollist |-> p, c4list |-> C4List,
       tunfactor |-> t] :
        a \in Topologies, sel \in SUBSET (1..2), ok \in BOOLEAN, p \in PolFiles,
        t \in {1, 2} }

Next1264 ==
    \E in \in Inputs1264 :
        /\ \A i \in in.selected : i <= Len(in.atoms) /\ in.atoms[i].element \in {"Cu", "Zn", "Na"}
        /\ Params1264Call(in)

Spec1264 == Init /\ [][Next1264]_vars

\* the labels of a populated type index of the call
LabelSets ==
    { Range(TypDict(c4out[1].input.atoms)[j]) : j \in 1..NTypes }

\* two labels of one type index have different polarizabilities, or a label
\* of a populated type index has none
PolarizabilityTrouble ==
    /\ \E labels \in LabelSets :
          \/ \E l \in labels : l \notin DOMAIN c4out[1].input.pollist
          \/ \E l, m \in labels :
                /\ l \in DOMAIN c4out[1].input.pollist
                /\ m \in DOMAIN c4out[1].input.pollist
                /\ c4out[1].input.pollist[l] # c4out[1].input.pollist[m]

\* the ion of the lowest selected type index
FirstIon ==
    LET in == c4out[1].input
        t  == CHOOSE x \in {in.atoms[i].ind : i \in in.selected} :
                 \A y \in {in.atoms[i].ind : i \in in.selected} : x <= y
    IN MetTypDict(in.atoms, in.selected)[t]

IonTypes == { c4out[1].input.atoms[i].ind : i \in c4out[1].input.selected }

Populated == { j \in 1..NTypes : \E i \in 1..Len(c4out[1].input.atoms) :
                                    c4out[1].input.atoms[i].ind = j }

\* the tabulated C4 value of the ion of type index i
TabulatedC4(i) ==
    c4out[1].input.c4list[MetTypDict(c4out[1].input.atoms, c4out[1].input.selected)[i]]

\* the entry of the unordered pair (i, j) of type indices
EntryOf(i, j) ==
    LET lo == IF i <= j THEN i ELSE j
        hi == IF i <= j THEN j ELSE i
    IN NonbondedParmIndex[NTypes * (lo - 1) + (hi - 1)]

OnlyOW(j) == \A i \in 1..Len(c4out[1].input.atoms) :
                c4out[1].input.atoms[i].ind = j => c4out[1].input.atoms[i].label = "OW"

\* the polarizability of type index j: that of the label of its first atom
PolOf(j) ==
    LET first == CHOOSE i \in 1..Len(c4out[1].input.atoms) :
                    /\ c4out[1].input.atoms[i].ind = j
                    /\ \A k \in 1..(i - 1) : c4out[1].input.atoms[k].ind # j
    IN c4out[1].input.pollist[c4out[1].input.atoms[first].label]

RECURSIVE Contributions(_)
\* what the pairs of a set add to an entry
Contributions(pairs) ==
    IF pairs = {} THEN 0
    ELSE LET p == CHOOSE q \in pairs : TRUE
         IN ((TabulatedC4(p[1]) \div WATER_POL) * PolOf(p[2])) * c4out[1].input.tunfactor
              + Contributions(pairs \ {p})

\* the pairs (ion type, populated type) of an entry
PairsOf(n) == { p \in IonTypes \X Populated : EntryOf(p[1], p[2]) = n }

\* C30: the result is as long as the A-coefficient table; the entry of an ion
\* type and a type whose only label is OW is the tabulated C4 value of the
\* ion, any other entry of an ion type and a populated type is the sum of
\* C4 / WATER_POL * pol * tunfactor over the pairs of the entry, and every
\* other entry is 0 (in the calls of the model the water type is never an ion
\* type, so that no entry is both set and increased)
C30_ResultEntries ==
    (c4out # <<>> /\ c4out[1].exc = "none") =>
        /\ Len(c4out[1].result) = NAcoef
        /\ \A n \in 1..NAcoef :
              c4out[1].result[n] =
                  IF PairsOf(n) = {} THEN 0
                  ELSE IF \E p \in PairsOf(n) : OnlyOW(p[2])
                    THEN TabulatedC4((CHOOSE p \in PairsOf(n) : OnlyOW(p[2]))[1])
                  ELSE Contributions(PairsOf(n))

\* Zn (type 1) and Na (type 2) are selected in Zn, Na, OW with tunfactor 2:
\* the entry of the pair (1, 2) holds both contributions, 2*2*2 + 3*5*2, the
\* entries of the water type hold the C4 values, the last entry is 0
C30_Witness ==
    /\ c4out # <<>>
    /\ c4out[1].exc = "none"
    /\ c4out[1].input.atoms = <<Atom("Zn", 1, "Zn", 2), Atom("Na", 2, "Na", 1),
                                Atom("OW", 3, "O", 0)>>
    /\ c4out[1].input.selected = {1, 2}
    /\ c4out[1].input.tunfactor = 2
    /\ c4out[1].result = <<20, 38, 12, 2 * WATER_POL, 3 * WATER_POL, 0>>

(***************************************************************************)
(* The defensive check of lines 667-669, over the parses of Spec: frcmod   *)
(* files whose DIHEDRAL sections alternate with other sections, and        *)
(* parm.dat files.                                                         *)
(***************************************************************************)
\* C31: no step ends in the AssertionError of line 669; a continuation-only
\* line that is accepted is attached to the pending key, which is marked
\* unfinished when the line arrives; a continuation-only line that arrives
\* with no pending key raises ParameterError and stores nothing
C31_ImpliedTorsionUnfinished ==
    [][ /\ exc' # "AssertionError"
        /\ \A line \in DihedralLines :
              (line.shape = "cont" /\ DihedralLine({line}, MaxLines)) =>
                  IF key = None
                    THEN exc' = "ParameterError" /\ hist' = hist
                    ELSE /\ key \in DOMAIN finished_diheds
                         /\ ~finished_diheds[key]
                         /\ exc' = "none"
                         /\ hist'[Len(hist')].key = key ]_vars

\* a pending torsion K was interrupted by a full line of torsion J with a
\* negative periodicity, and the continuation-only line after it was accepted
\* for J
C31_Witness ==
    /\ exc = "none"
    /\ Len(hist) >= 3
    /\ hist[Len(hist) - 2].shape = "full" /\ hist[Len(hist) - 2].key = TorsionK
    /\ hist[Len(hist) - 2].per < 0
    /\ hist[Len(hist) - 1].shape = "full" /\ hist[Len(hist) - 1].key = TorsionJ
    /\ hist[Len(hist) - 1].per < 0
    /\ hist[Len(hist)].shape = "cont" /\ hist[Len(hist)].key = TorsionJ

(***************************************************************************)
(* The line source of _parse_parm_dat (lines 480-485) and the reads of the *)
(* parser (lines 486-594).  src is "lines" while the file has not ended    *)
(* and "spent" once the generator has yielded its one empty string.  A     *)
(* line is "ok" (the handler of the phase accepts it; the kind line names  *)
(* RE; the line after the nonbonded section is LJEDIT), "bad" (the handler *)
(* raises ParameterError), "blank", or "eof" when the file has no more     *)
(* lines.  The assignment of the equivalenced types (lines 571-587) reads  *)
(* no line and is left out.                                                *)
(***************************************************************************)
MaxReads == 14

ParmPhases ==
    <<"MASS", "HYDRO", "BOND", "ANGLE", "DIHEDRAL", "IMPROPER", "TENTWELVE", "EQUIV",
      "KIND", "NONBOND", "AFTER", "LJEDIT">>

\* the phases that read lines in a loop "while rawline: ... rawline = next(fiter)"
LoopPhases ==
    {"MASS", "BOND", "ANGLE", "DIHEDRAL", "IMPROPER", "TENTWELVE", "EQUIV", "NONBOND",
     "LJEDIT"}

PhaseAfter(phase) ==
    ParmPhases[(CHOOSE i \in 1..Len(ParmPhases) : ParmPhases[i] = phase) + 1]

\* next(fiter): [raised, src] after the call
Fiter(src, line) ==
    IF src = "spent" THEN [raised |-> TRUE, src |-> src]
    ELSE [raised |-> FALSE, src |-> IF line = "eof" THEN "spent" ELSE "lines"]

\* line 421: the first line that is neither blank nor a section header goes to
\* _parse_parm_dat, which makes its generator
ParseParmDat ==
    /\ layout = "none"
    /\ reader = <<>>
    /\ reader' = <<[phase |-> "MASS", src |-> "lines", nread |-> 0, end |-> "running"]>>
    /\ UNCHANGED <<dbVars, parseVars, titles, warnings, exc, nlines, hist, last, leapVars,
                   text, original, base, handles, outfile, is_fmt, applied, resolved,
                   c4out, leap>>

\* one call of next(fiter) and what the parser does with the line
ReadParmLine(line) ==
    /\ reader # <<>>
    /\ reader[1].end = "running"
    /\ reader[1].nread < MaxReads
    /\ reader[1].nread = 0 => line \in {"ok", "bad"}
    /\ reader[1].src = "spent" => line = "eof"
    /\ LET r   == reader[1]
           got == Fiter(r.src, line)
           ends(how)  == [r EXCEPT !.src = got.src, !.nread = @ + 1, !.end = how]
           goes(next) == [r EXCEPT !.src = got.src, !.nread = @ + 1, !.phase = next]
       IN reader' =
            << IF got.raised THEN ends("StopIteration")
               ELSE IF r.phase \in LoopPhases
                 THEN (IF line \in {"blank", "eof"}
                         THEN (IF r.phase = "LJEDIT" THEN ends("return")
                               ELSE goes(PhaseAfter(r.phase)))
                       ELSE IF line = "ok" THEN goes(r.phase)
                       ELSE ends("ParameterError"))
               ELSE IF r.phase = "HYDRO" THEN goes("BOND")
               ELSE IF r.phase = "KIND"
                 THEN (IF line = "ok" THEN goes("NONBOND") ELSE ends("ParameterError"))
               ELSE (IF line = "ok" THEN goes("LJEDIT") ELSE ends("return")) >>
    /\ UNCHANGED <<dbVars, parseVars, titles, warnings, exc, nlines, hist, last, leapVars,
                   text, original, base, handles, outfile, is_fmt, applied, resolved,
                   c4out, leap>>

NextParmDat ==
    \/ ParseParmDat
    \/ \E line \in {"ok", "bad", "blank", "eof"} : ReadParmLine(line)

SpecParmDat == Init /\ [][NextParmDat]_vars

\* C32: the parse of a parm.dat input that ends at any point never ends in
\* StopIteration, the failure of a read from the exhausted line source
C32_NeverExhausted ==
    reader = <<>> \/ reader[1].end # "StopIteration"

\* the file ended with the blank line that closes the nonbonded section: the
\* read of the line after it got the one empty string, and the parse returned
C32_Witness ==
    /\ reader # <<>>
    /\ reader[1].phase = "AFTER"
    /\ reader[1].src = "spent"
    /\ reader[1].end = "return"

(***************************************************************************)
(* SpecWildcard: frcmod files with IMPROPER lines that hold the wildcard   *)
(* once or twice among names that sort before X (upper case) and after X   *)
(* (lower case), and write on the database they leave.                     *)
(***************************************************************************)
WildcardWriteLines ==
    { [shape |-> "ok", key |-> a, k |-> 10, phi |-> 180, per |-> 2] :
        a \in WildcardFlanks \cup { <<"H", "X", "N", "c">>, <<"X", "X", "N", "c">> } }

NextWildcard ==
    \/ LoadParameters("frcmod")
    \/ Header("IMPROPER")
    \/ ImproperLine(WildcardWriteLines, MaxLines)
    \/ EndOfFrcmod
    \/ Write(TRUE)

SpecWildcard == Init /\ [][NextWildcard]_vars

\* how many of the flanking atoms of key k are the wildcard
Wildcards(k) == Cardinality({i \in {1, 2, 4} : k[i] = "X"})

\* the lines of the IMPROPER section of the written file that are about the
\* improper stored under k
ImproperLinesFor(k) ==
    { i \in 1..Len(text[1]) :
        /\ text[1][i].section = "IMPROPER"
        /\ text[1][i].line.key[3] = k[3]
        /\ Flanking(text[1][i].line.key) = Flanking(k) }

\* C33: write on a database with impropers that hold the wildcard once or
\* twice among their flanking atoms ends without AssertionError and prints,
\* for each of them, one line with atom 3 in place and every X before the
\* other flanking atoms, X being atom 1 (write leaves a text only when it
\* ends without error)
C33_WildcardWritten ==
    (original # <<>> /\ base = <<>>) =>
        \A k \in DOMAIN original[1].improper_periodic_types :
            Wildcards(k) \in {1, 2} =>
                /\ text # <<>>
                /\ Cardinality(ImproperLinesFor(k)) = 1
                /\ \A i \in ImproperLinesFor(k) :
                      /\ text[1][i].line.key[1] = "X"
                      /\ Wildcards(k) = 2 => text[1][i].line.key[2] = "X"

\* among upper-case names write does put the wildcard first: the impropers
\* stored under (CT, H, N, X) and (H, X, N, X) are printed as X-CT-N-H and
\* X-X-N-H
C33_Witness ==
    /\ original # <<>> /\ base = <<>>
    /\ exc = "none"
    /\ text # <<>>
    /\ DOMAIN original[1].improper_periodic_types =
          { <<"CT", "H", "N", "X">>, <<"H", "X", "N", "X">> }
    /\ \E i, j \in 1..Len(text[1]) :
          /\ text[1][i].section = "IMPROPER"
          /\ text[1][i].line.key = <<"X", "CT", "N", "H">>
          /\ text[1][j].section = "IMPROPER"
          /\ text[1][j].line.key = <<"X", "X", "N", "H">>

(***************************************************************************)
(* from_leaprc on a whole script (lines 292-374).  The script is the       *)
(* sequence of its statements; its text is the sequence of their tokens,   *)
(* one line each: a load directive with its file, the addAtomTypes         *)
(* keyword, a brace, or the three quoted words of a triple.  The parameter *)
(* files of this part hold mass lines and are all found.                   *)
(***************************************************************************)
MaxStatements == 3

Token(tok, a, b) == [tok |-> tok, a |-> a, b |-> b]

LoadStatement(file) == <<Token("loadamberparams", file, "")>>

OffStatement(file) == <<Token("loadoff", file, "")>>

\* { "name" "symb" "hyb" }
Group(name, symb) == <<Token("{", "", ""), Token("words", name, symb), Token("}", "", "")>>

RECURSIVE Concat(_)
Concat(seqs) == IF seqs = <<>> THEN <<>> ELSE Head(seqs) \o Concat(Tail(seqs))

\* keyword { group group ... }
BlockStatement(keyword, groups) ==
    <<Token(keyword, "", ""), Token("{", "", "")>> \o Concat(groups) \o <<Token("}", "", "")>>

\* str.lower, on the spellings of the keyword
Lower(tok) == IF tok \in {"addAtomTypes", "ADDATOMTYPES"} THEN "addatomtypes" ELSE tok

\* the mass lines of the parameter files
ParamFiles ==
    ("A" :> << [shape |-> "ok", type |-> "N", mass |-> 14],
               [shape |-> "ok", type |-> "CT", mass |-> 12] >>)
    @@ ("B" :> << [shape |-> "ok", type |-> "N", mass |-> 16],
                  [shape |-> "ok", type |-> "O", mass |-> 16] >>)

RECURSIVE MassLinesStored(_, _)
\* load_parameters on a file of mass lines
MassLinesStored(at, lines) ==
    IF lines = <<>> THEN at ELSE MassLinesStored(MassLineStored(at, Head(lines)), Tail(lines))

LoadedFirst(db, file) ==
    [db EXCEPT !.types = MassLinesStored(@, ParamFiles[file]), !.titles = <<file>> \o @]

\* line 326: params.load_parameters(...)
Loaded(db, file) ==
    [db EXCEPT !.types = MassLinesStored(@, ParamFiles[file]), !.titles = Append(@, file)]

\* lines 308-337: what the loop does with one line
LineEffect(db, t) ==
    IF t.tok = "loadamberparams" THEN Loaded(db, t.a)
    ELSE IF t.tok = "loadoff" THEN [db EXCEPT !.residues = @ \cup {t.a}]
    ELSE db

IndexOfLast(txt, word) ==
    IF \E i \in 1..Len(txt) : Lower(txt[i].tok) = word
      THEN CHOOSE i \in 1..Len(txt) :
              Lower(txt[i].tok) = word /\ \A j \in (i + 1)..Len(txt) : Lower(txt[j].tok) # word
      ELSE 0

\* line 340: lowertext.index(word), 0 for ValueError
IndexOf(txt, word) ==
    IF \E i \in 1..Len(txt) : Lower(txt[i].tok) = word
      THEN CHOOSE i \in 1..Len(txt) :
              Lower(txt[i].tok) = word /\ \A j \in 1..(i - 1) : Lower(txt[j].tok) # word
      ELSE 0

RECURSIVE UpToClosingBrace(_, _, _, _)
\* lines 354-364: the txt from position i to the brace that closes the block
UpToClosingBrace(txt, i, nopen, chars) ==
    IF i > Len(txt) THEN chars
    ELSE IF txt[i].tok = "{"
      THEN UpToClosingBrace(txt, i + 1, nopen + 1, Append(chars, txt[i]))
    ELSE IF txt[i].tok = "}"
      THEN (IF nopen - 1 = 0 THEN chars
            ELSE UpToClosingBrace(txt, i + 1, nopen - 1, Append(chars, txt[i])))
    ELSE UpToClosingBrace(txt, i + 1, nopen, Append(chars, txt[i]))

RECURSIVE FindAllGroups(_, _)
\* _atomtypere.findall: the groups { words } of a txt, from position i on
FindAllGroups(chars, i) ==
    IF i + 2 > Len(chars) THEN <<>>
    ELSE IF chars[i].tok = "{" /\ chars[i + 1].tok = "words" /\ chars[i + 2].tok = "}"
      THEN <<chars[i + 1]>> \o FindAllGroups(chars, i + 3)
    ELSE FindAllGroups(chars, i + 1)

RECURSIVE TriplesApplied(_, _)
\* lines 369-373
TriplesApplied(types, triples) ==
    IF triples = <<>> THEN [types |-> types, exc |-> "none"]
    ELSE IF Head(triples).b \notin DOMAIN AtomicNum
      THEN [types |-> types, exc |-> "ParameterError"]
    ELSE TriplesApplied(AtomicNumberSet(types, Head(triples).a, AtomicNum[Head(triples).b]),
                        Tail(triples))

\* lines 338-373: [types, exc] after the addAtomTypes part
AddAtomTypes(txt, types) ==
    LET idx == IndexOf(txt, "addatomtypes")
    IN IF idx = 0 THEN [types |-> types, exc |-> "none"]
       ELSE IF idx + 1 > Len(txt) \/ txt[idx + 1].tok # "{"
         THEN [types |-> types, exc |-> "ParameterError"]
       ELSE TriplesApplied(types,
                           FindAllGroups(UpToClosingBrace(txt, idx + 2, 1, <<>>), 1))

\* lines 274-305: the script is read into memory
FromLeaprc(stmts) ==
    /\ layout = "none"
    /\ leap = <<>>
    /\ leap' = <<[stmts |-> stmts, text |-> Concat(stmts), i |-> 1,
                  db |-> [types |-> EmptyDict, titles |-> <<>>, residues |-> {}],
                  exc |-> "none", done |-> FALSE]>>
    /\ UNCHANGED <<dbVars, parseVars, titles, warnings, exc, nlines, hist, last, leapVars,
                   text, original, base, handles, outfile, is_fmt, applied, resolved,
                   c4out, reader>>

\* lines 306-337: one turn of the loop over the lines
LeaprcLine ==
    /\ leap # <<>>
    /\ leap[1].i <= Len(leap[1].text)
    /\ leap' = <<[leap[1] EXCEPT !.db = LineEffect(@, leap[1].text[leap[1].i]),
                                 !.i = @ + 1]>>
    /\ UNCHANGED <<dbVars, parseVars, titles, warnings, exc, nlines, hist, last, leapVars,
                   text, original, base, handles, outfile, is_fmt, applied, resolved,
                   c4out, reader>>

\* lines 338-374, after the loop
LeaprcAddAtomTypes ==
    /\ leap # <<>>
    /\ leap[1].i > Len(leap[1].text)
    /\ ~leap[1].done
    /\ LET r == AddAtomTypes(leap[1].text, leap[1].db.types)
       IN leap' = <<[leap[1] EXCEPT !.db.types = r.types, !.exc = r.exc, !.done = TRUE]>>
    /\ UNCHANGED <<dbVars, parseVars, titles, warnings, exc, nlines, hist, last, leapVars,
                   text, original, base, handles, outfile, is_fmt, applied, resolved,
                   c4out, reader>>

(***************************************************************************)
(* SpecScript: scripts of up to MaxStatements statements: loads of two     *)
(* parameter files, a loadoff, and two addAtomTypes blocks, the second     *)
(* with an element that is not recognized.                                 *)
(***************************************************************************)
BlockNO == BlockStatement("addAtomTypes", <<Group("N", "O")>>)

BlockBad == BlockStatement("ADDATOMTYPES", <<Group("CT", "H"), Group("N", "Xx")>>)

Statements == { LoadStatement("A"), LoadStatement("B"), OffStatement("lib"), BlockNO, BlockBad }

Scripts == UNION { [1..n -> Statements] : n \in 1..MaxStatements }

NextScript ==
    \/ \E stmts \in Scripts : FromLeaprc(stmts)
    \/ LeaprcLine
    \/ LeaprcAddAtomTypes

SpecScript == Init /\ [][NextScript]_vars

IsBlock(stmt) == Lower(stmt[1].tok) = "addatomtypes"

\* the parameter files of the load statements of a script, in its order
RECURSIVE LoadsOf(_)
LoadsOf(stmts) ==
    IF stmts = <<>> THEN <<>>
    ELSE (IF Head(stmts)[1].tok = "loadamberparams" THEN <<Head(stmts)[1].a>> ELSE <<>>)
           \o LoadsOf(Tail(stmts))

RECURSIVE TypesLoaded(_, _)
\* the atom types after loading the files in the order given
TypesLoaded(at, files) ==
    IF files = <<>> THEN at
    ELSE TypesLoaded(MassLinesStored(at, ParamFiles[Head(files)]), Tail(files))

\* the words of the groups of the first block of a script
FirstBlockWords(stmts) ==
    IF \E i \in 1..Len(stmts) : IsBlock(stmts[i])
      THEN LET b == CHOOSE i \in 1..Len(stmts) :
                       IsBlock(stmts[i]) /\ \A j \in 1..(i - 1) : ~IsBlock(stmts[j])
           IN SelectSeq(stmts[b], LAMBDA t : t.tok = "words")
      ELSE <<>>

\* the atomic number the words ws give to type n, or that of its record at
NumberGiven(ws, n, at) ==
    IF \E i \in 1..Len(ws) : ws[i].a = n
      THEN AtomicNum[ws[(CHOOSE i \in 1..Len(ws) :
                           ws[i].a = n /\ \A j \in (i + 1)..Len(ws) : ws[j].a # n)].b]
      ELSE at[n].atomic_number

\* C34: when from_leaprc returns, the files were loaded in the order of their
\* load statements, and the atom types are those of all the loads of the
\* script, whether before or after the block, with the atomic numbers that
\* the first addAtomTypes block gives
C34_BlockAfterLoads ==
    (leap # <<>> /\ leap[1].done /\ leap[1].exc = "none") =>
        LET at == TypesLoaded(EmptyDict, LoadsOf(leap[1].stmts))
            ws == FirstBlockWords(leap[1].stmts)
        IN /\ leap[1].db.titles = LoadsOf(leap[1].stmts)
           /\ DOMAIN leap[1].db.types = DOMAIN at
           /\ \A n \in DOMAIN at :
                 leap[1].db.types[n] =
                    [at[n] EXCEPT !.atomic_number = NumberGiven(ws, n, at)]

\* the block comes first and the loads of B and A after it: N, which B makes
\* with atomic number 8 and whose mass A sets to 14, ends with the atomic
\* number of O all the same, given by the block
C34_Witness ==
    /\ leap # <<>> /\ leap[1].done /\ leap[1].exc = "none"
    /\ leap[1].stmts = <<BlockNO, LoadStatement("B"), LoadStatement("A")>>
    /\ leap[1].db.titles = <<"B", "A">>
    /\ leap[1].db.types["N"].mass = 14
    /\ leap[1].db.types["N"].atomic_number = 8

\* how many addAtomTypes blocks a script holds
Blocks(stmts) == Cardinality({i \in 1..Len(stmts) : IsBlock(stmts[i])})

\* C35: when a script with two or more addAtomTypes blocks has been
\* processed, ParameterError was raised only for an element of the first
\* block, and an atom type differs from what the loads made only if a triple
\* of the first block names it
C35_FirstBlockOnly ==
    (leap # <<>> /\ leap[1].done /\ Blocks(leap[1].stmts) >= 2) =>
        LET at == TypesLoaded(EmptyDict, LoadsOf(leap[1].stmts))
            ws == FirstBlockWords(leap[1].stmts)
        IN /\ leap[1].exc \in {"none", "ParameterError"}
           /\ (leap[1].exc = "ParameterError") <=>
                 (\E i \in 1..Len(ws) : ws[i].b \notin DOMAIN AtomicNum)
           /\ \A n \in DOMAIN leap[1].db.types :
                 leap[1].db.types[n] # at[n] => \E i \in 1..Len(ws) : ws[i].a = n

\* after the load of A, the block that names N as O is followed by one that
\* names CT as H and N as an unknown element: no error, N has the atomic
\* number of O and CT keeps that of carbon
C35_Witness ==
    /\ leap # <<>> /\ leap[1].done
    /\ leap[1].stmts = <<LoadStatement("A"), BlockNO, BlockBad>>
    /\ leap[1].exc = "none"
    /\ leap[1].db.types["N"].atomic_number = 8
    /\ leap[1].db.types["CT"].atomic_number = 6
====
